---- MODULE Spec2Model ----
(***************************************************************************)
(* A model of the race-condition detection engine                          *)
(* (race_condition_detector.py): the pattern registry, the five category   *)
(* detectors, the windowed mitigation checks, the threaded-region and      *)
(* shared-access finders, scan_file, scan_directory and generate_report.   *)
(* Source text is modelled as strings; regular expressions and substring   *)
(* tests are evaluated character by character.                             *)
(***************************************************************************)
EXTENDS Integers, Sequences, FiniteSets, TLC

VARIABLES
    tree,        \* the directory tree the caller points the detector at
    detector,    \* the fields of each RaceConditionDetector instance
    entry,       \* the entry point called last: "none", "scan_file", "scan_directory"
    calls,       \* the paths scan_file was invoked with during that call
    conditions,  \* the finding list it returned
    previous,    \* the list the same call returned the time before, if it was repeated
    report,      \* what generate_report returned for that list, if asked
    raised,      \* the exception the last call left to its caller, "none" if it returned
    web,         \* the web application: the last request's route, status and scratch file
    threads,     \* the scans running at the same time on detector d1, each with its locals
    gui          \* the desktop front end: its widgets, its scan threads, its callbacks

vars == <<tree, detector, entry, calls, conditions, previous, report, raised, web, threads, gui>>

(***************************************************************************)
(* Text primitives: Python str operations on ASCII text.                   *)
(***************************************************************************)

Max(a, b) == IF a >= b THEN a ELSE b

Min(a, b) == IF a <= b THEN a ELSE b

UpperAlpha == "ABCDEFGHIJKLMNOPQRSTUVWXYZ"

LowerAlpha == "abcdefghijklmnopqrstuvwxyz"

Digits == "0123456789"

\* s[i-1:j] of Python: the characters i..j (1-based), clipped to the string.
Slice(s, i, j) ==
    LET lo == IF i < 1 THEN 1 ELSE i
        hi == IF j > Len(s) THEN Len(s) ELSE j
    IN  IF lo > hi THEN "" ELSE SubSeq(s, lo, hi)

\* The character at position i (1-based); "" outside the string.
Char(s, i) == IF i >= 1 /\ i <= Len(s) THEN SubSeq(s, i, i) ELSE ""

CharsOf(s) == {Char(s, k) : k \in 1..Len(s)}

\* \w of re (ASCII part): letters, digits and the underscore.
WordChars == CharsOf(UpperAlpha) \cup CharsOf(LowerAlpha) \cup CharsOf(Digits) \cup {"_"}

\* \s of re, and the characters str.strip() removes.
SpaceChars == {" ", "\t", "\r", "\f"}

UpperChars == CharsOf(UpperAlpha)

\* The lower-case letter of each upper-case letter.
LowerTable ==
    [c \in UpperChars |->
        Char(LowerAlpha, CHOOSE k \in 1..Len(UpperAlpha) : Char(UpperAlpha, k) = c)]

LowerChar(c) == IF c \in UpperChars THEN LowerTable[c] ELSE c

RECURSIVE lower(_)
\* str.lower()
lower(s) == IF s = "" THEN "" ELSE LowerChar(Char(s, 1)) \o lower(Slice(s, 2, Len(s)))

\* `kw in s`: kw occurs in s as a contiguous substring.
Contains(s, kw) ==
    \E i \in 1..(Len(s) - Len(kw) + 1) : Slice(s, i, i + Len(kw) - 1) = kw

RECURSIVE lstrip(_)
lstrip(s) == IF s # "" /\ Char(s, 1) \in SpaceChars THEN lstrip(Slice(s, 2, Len(s))) ELSE s

RECURSIVE rstrip(_)
rstrip(s) ==
    IF s # "" /\ Char(s, Len(s)) \in SpaceChars THEN rstrip(Slice(s, 1, Len(s) - 1)) ELSE s

\* str.strip()
strip(s) == rstrip(lstrip(s))

RECURSIVE split(_)
\* content.split('\n'): always at least one element, "" for the empty text.
split(s) ==
    IF \A i \in 1..Len(s) : Char(s, i) # "\n"
    THEN <<s>>
    ELSE LET i == CHOOSE k \in 1..Len(s) :
                      Char(s, k) = "\n" /\ \A j \in 1..(k - 1) : Char(s, j) # "\n"
         IN  <<Slice(s, 1, i - 1)>> \o split(Slice(s, i + 1, Len(s)))

RECURSIVE join(_)
\* '\n'.join(lines): the text whose split is lines.
join(ls) ==
    IF Len(ls) = 0 THEN ""
    ELSE IF Len(ls) = 1 THEN ls[1]
    ELSE ls[1] \o "\n" \o join(Tail(ls))

(***************************************************************************)
(* Regular expressions, as re.search(pattern, line, re.IGNORECASE) uses    *)
(* them.  A pattern is a sequence of atoms; an atom is a literal, or a     *)
(* character class with a quantifier ("1", "?", "*", "+"), or the          *)
(* back-reference \1.  The atom with cap = TRUE is capture group 1.        *)
(* Under IGNORECASE letters are compared in lower case: the literal in     *)
(* lower case against the lower-cased line.                                *)
(***************************************************************************)

Lit(str) == [t |-> "lit", s |-> str, q |-> "1", cap |-> FALSE]

Cls(c, quant) == [t |-> "cls", s |-> c, q |-> quant, cap |-> FALSE]

Cap(c, quant) == [t |-> "cls", s |-> c, q |-> quant, cap |-> TRUE]

BackRef == [t |-> "ref", s |-> "", q |-> "1", cap |-> FALSE]

\* Membership of a character in a class: \w, \s, [^)], ., [+\-*/].
InClass(c, cls) ==
    /\ c # ""
    /\ CASE cls = "w" -> c \in WordChars
         [] cls = "s" -> c \in SpaceChars
         [] cls = "notrparen" -> c # ")"
         [] cls = "any" -> c # "\n"
         [] cls = "arith" -> c \in {"+", "-", "*", "/"}

RECURSIVE RunLength(_, _, _)
\* The number of consecutive characters of the class from position i.
RunLength(s, i, cls) == IF InClass(Char(s, i), cls) THEN 1 + RunLength(s, i + 1, cls) ELSE 0

\* The run lengths a quantified class may take at position i.
Runs(s, i, cls, quant) ==
    LET lo == IF quant \in {"1", "+"} THEN 1 ELSE 0
        most == IF quant \in {"1", "?"} THEN Min(1, RunLength(s, i, cls))
                ELSE RunLength(s, i, cls)
    IN  lo..most

RECURSIVE Ends(_, _, _, _, _)
\* Every way atoms k.. of pattern match the lower-cased line s from position
\* i, with group 1 = g: the set of <<position after the match, group 1>>.
Ends(pattern, k, s, i, g) ==
    IF k > Len(pattern) THEN {<<i, g>>}
    ELSE LET a == pattern[k] IN
         CASE a.t = "lit" ->
                IF Slice(s, i, i + Len(a.s) - 1) = lower(a.s)
                THEN Ends(pattern, k + 1, s, i + Len(a.s), g)
                ELSE {}
           [] a.t = "cls" ->
                UNION {Ends(pattern, k + 1, s, i + n,
                            IF a.cap THEN Slice(s, i, i + n - 1) ELSE g) :
                       n \in Runs(s, i, a.s, a.q)}
           [] a.t = "ref" ->
                IF Slice(s, i, i + Len(g) - 1) = g
                THEN Ends(pattern, k + 1, s, i + Len(g), g)
                ELSE {}

\* The start positions at which the pattern matches.
MatchStarts(pattern, s) ==
    LET ls == lower(s) IN {i \in 1..(Len(s) + 1) : Ends(pattern, 1, ls, i, "") # {}}

\* re.search(pattern, s, re.IGNORECASE) is not None
re_search(pattern, s) == MatchStarts(pattern, s) # {}

\* match.group(1) of the leftmost match, in the line's own letter case; the
\* greedy group takes the longest run that lets the rest of the pattern match.
group1(pattern, s) ==
    LET starts == MatchStarts(pattern, s)
        i == CHOOSE m \in starts : \A n \in starts : m <= n
        lens == {Len(e[2]) : e \in Ends(pattern, 1, lower(s), i, "")}
        longest == CHOOSE n \in lens : \A m \in lens : m <= n
    IN  Slice(s, i, i + longest - 1)

(***************************************************************************)
(* The pattern registry (RaceConditionDetector.__init__).                  *)
(***************************************************************************)

\* name\s*\([^)]*\)
CallShape(name) == <<Lit(name), Cls("s", "*"), Lit("("), Cls("notrparen", "*"), Lit(")")>>

\* (\w+)\s*op\s*\w+
CompoundShape(op) == <<Cap("w", "+"), Cls("s", "*"), Lit(op), Cls("s", "*"), Cls("w", "+")>>

patterns ==
    [file_race |->
        << CallShape("open"), CallShape("write"), CallShape("read"),
           CallShape("f.write"), CallShape("f.read") >>,
     variable_race |->
        << CompoundShape("+="), CompoundShape("-="), CompoundShape("*="), CompoundShape("/="),
           \* (\w+)\s*=\s*\1\s*[+\-*/]\s*\w+
           << Cap("w", "+"), Cls("s", "*"), Lit("="), Cls("s", "*"), BackRef, Cls("s", "*"),
              Cls("arith", "1"), Cls("s", "*"), Cls("w", "+") >> >>,
     database_race |->
        << <<Lit("INSERT"), Cls("s", "+"), Lit("INTO")>>,
           <<Lit("UPDATE"), Cls("s", "+"), Cls("w", "+")>>,
           <<Lit("DELETE"), Cls("s", "+"), Lit("FROM")>>,
           <<Lit("SELECT"), Cls("s", "+"), Cls("any", "*"), Cls("s", "+"), Lit("FOR"),
             Cls("s", "+"), Lit("UPDATE")>>,
           <<Lit("BEGIN"), Cls("s", "+"), Lit("TRANSACTION")>> >>,
     thread_race |->
        << <<Lit("threading.Thread")>>, <<Lit("concurrent.futures")>>, <<Lit("asyncio.")>>,
           <<Lit(".start()")>>, <<Lit(".join()")>> >>,
     lock_missing |->
        << <<Lit("threading.Lock")>>, <<Lit("threading.RLock")>>, <<Lit("threading.Semaphore")>>,
           <<Lit(".acquire()")>>, <<Lit(".release()")>> >>]

supported_extensions == {".py", ".js", ".ts", ".java", ".cpp", ".c", ".go", ".rs"}

\* \w+\s*[+\-*/]?=\s*\w+ (no letters in it: the case flag makes no difference)
shared_access_pattern ==
    <<Cls("w", "+"), Cls("s", "*"), Cls("arith", "?"), Lit("="), Cls("s", "*"), Cls("w", "+")>>

lock_keywords == {"lock", "acquire", "release", "with"}

threading_indicators == {"threading", "Thread", "concurrent", "asyncio"}

transaction_keywords == {"transaction", "commit", "rollback", "begin", "end"}

sync_keywords == {"lock", "semaphore", "barrier", "event", "condition"}

section_keywords == {"threading", "Thread", "concurrent"}

\* any(keyword in line.lower() for keyword in keywords)
any_keyword_lower(line, keywords) == \E kw \in keywords : Contains(lower(line), kw)

\* any(indicator in line for indicator in keywords): case-sensitive
any_keyword(line, keywords) == \E kw \in keywords : Contains(line, kw)

(***************************************************************************)
(* The source lines the model's files are written from.                    *)
(***************************************************************************)

LineTexts ==
    { "", "    ", "pass", "    f = open('f','a')", "f.write(data)", "with lock:",
      "    lock.acquire()", "counter += 1", "x = x + 1", "import threading",
      "t = threading.Thread(target=run)", "t.start()", "t.join()",
      "import concurrent.futures", "await asyncio.sleep(1)", "shared_data.append(item)",
      "total = count", "db.run('UPDATE accounts')", "db.run('BEGIN TRANSACTION')",
      "conn.commit()", "T = THREADING.THREAD(TARGET=RUN)", "open('f','a')",
      "locked = value", "total += f.read()", "import os, sys; os.remove(sys.argv[0])",
      "with open('f','a') as f:" }

\* re.search(pattern, l, re.IGNORECASE) for every pattern of every category
search_all(registry, l) ==
    [c \in DOMAIN registry |-> [k \in 1..Len(registry[c]) |-> re_search(registry[c][k], l)]]

\* match.group(1) for every pattern of the list that matches l
group1_all(list, l) ==
    [k \in 1..Len(list) |-> IF re_search(list[k], l) THEN group1(list[k], l) ELSE ""]

\* What the detectors ask of one line: which patterns match it, the variable
\* each variable_race pattern captures, which keyword lists it meets, and its
\* stripped text.
line_facts(l) ==
    [search |-> search_all(patterns, l),
     variable |-> group1_all(patterns.variable_race, l),
     shared |-> re_search(shared_access_pattern, l),
     lock |-> any_keyword_lower(l, lock_keywords),
     transaction |-> any_keyword_lower(l, transaction_keywords),
     sync |-> any_keyword_lower(l, sync_keywords),
     threaded |-> any_keyword(l, threading_indicators),
     section |-> any_keyword(l, section_keywords),
     snippet |-> strip(l)]

\* The facts of the line texts, computed once for each.
LineFacts == [l \in LineTexts |-> line_facts(l)]

\* The facts of every line of a file (files are written from LineTexts).
facts_of(lines) == [i \in 1..Len(lines) |-> LineFacts[lines[i]]]

(***************************************************************************)
(* Findings (the RaceCondition dataclass) and the five detectors.          *)
(***************************************************************************)

RaceCondition(file_path, line_number, race_type, description, severity, code_snippet, recommendations) ==
    [file_path |-> file_path, line_number |-> line_number, race_type |-> race_type,
     description |-> description, severity |-> severity, code_snippet |-> code_snippet,
     recommendations |-> recommendations]

RECURSIVE Flatten(_)
\* conditions.append / conditions.extend in loop order: the concatenation of
\* a sequence of sequences.
Flatten(ss) == IF Len(ss) = 0 THEN <<>> ELSE Head(ss) \o Flatten(Tail(ss))

LockRadius == 10

TransactionRadius == 20

SyncRadius == 20

\* In the detectors below m is facts_of(lines): m[i] holds what re.search,
\* the keyword tests and strip() give for lines[i].

\* window taking the lines around line_num without the line itself.
window_around(lines, line_num, radius) ==
    (Max(0, line_num - radius)..(Min(Len(lines), line_num + radius) - 1)) \ {line_num - 1}

\* window without min(len(lines), ...): its end is line_num + radius.
window_unclipped(lines, line_num, radius) == Max(0, line_num - radius)..(line_num + radius - 1)

\* range(start, end) with start = max(0, line_num - radius) and
\* end = min(len(lines), line_num + radius): the 0-based subscripts of a
\* mitigation check.
window(lines, line_num, radius) ==
    Max(0, line_num - radius)..(Min(Len(lines), line_num + radius) - 1)

\* check_for_locks without its window: any lock keyword in the file counts.
check_for_locks_whole_file(lines, line_num, m) == \E i \in 1..Len(lines) : m[i].lock

\* for i in range(start, end): lines[i], with i 0-based (line i + 1 here)
check_for_locks(lines, line_num, m) ==
    \E i \in window(lines, line_num, LockRadius) : m[i + 1].lock

\* is_in_threaded_context looking only at the lines near line_num.
is_in_threaded_context_nearby(lines, line_num, m) ==
    \E i \in Max(1, line_num - LockRadius)..Min(Len(lines), line_num + LockRadius) :
        m[i].threaded

\* is_in_threaded_context looking only at the lines up to line_num.
is_in_threaded_context_before(lines, line_num, m) == \E i \in 1..line_num : m[i].threaded

\* is_in_threaded_context knowing asyncio alone.
is_in_threaded_context_asyncio(lines, line_num, m) ==
    \E i \in 1..Len(lines) : Contains(lines[i], "asyncio")

is_in_threaded_context(lines, line_num, m) == \E i \in 1..Len(lines) : m[i].threaded

check_for_transactions(lines, line_num, m) ==
    \E i \in window(lines, line_num, TransactionRadius) : m[i + 1].transaction

check_for_synchronization(lines, line_num, m) ==
    \E i \in window(lines, line_num, SyncRadius) : m[i + 1].sync

RECURSIVE sections_from_restarting(_, _, _, _, _, _)
\* sections_from moving the start of an open section to every keyword line.
sections_from_restarting(lines, m, i, in_threaded_section, start_line, sections) ==
    IF i > Len(lines) THEN sections
    ELSE IF m[i].section
         THEN sections_from_restarting(lines, m, i + 1, TRUE, i, sections)
         ELSE IF in_threaded_section /\ m[i].snippet = ""
              THEN sections_from_restarting(lines, m, i + 1, FALSE, start_line,
                                            Append(sections, <<start_line, i>>))
              ELSE sections_from_restarting(lines, m, i + 1, in_threaded_section, start_line,
                                            sections)

RECURSIVE sections_from_closing_at_end(_, _, _, _, _, _)
\* sections_from closing at the end of the file a section still open there.
sections_from_closing_at_end(lines, m, i, in_threaded_section, start_line, sections) ==
    IF i > Len(lines)
    THEN IF in_threaded_section THEN Append(sections, <<start_line, Len(lines) + 1>>)
         ELSE sections
    ELSE IF m[i].section
         THEN sections_from_closing_at_end(lines, m, i + 1, TRUE,
                                           IF in_threaded_section THEN start_line ELSE i,
                                           sections)
         ELSE IF in_threaded_section /\ m[i].snippet = ""
              THEN sections_from_closing_at_end(lines, m, i + 1, FALSE, start_line,
                                                Append(sections, <<start_line, i>>))
              ELSE sections_from_closing_at_end(lines, m, i + 1, in_threaded_section,
                                                start_line, sections)

RECURSIVE sections_from(_, _, _, _, _, _)
\* The loop of _find_threaded_sections from line i on.
sections_from(lines, m, i, in_threaded_section, start_line, sections) ==
    IF i > Len(lines) THEN sections
    ELSE IF m[i].section
         THEN IF ~in_threaded_section
              THEN sections_from(lines, m, i + 1, TRUE, i, sections)
              ELSE sections_from(lines, m, i + 1, in_threaded_section, start_line, sections)
         ELSE IF in_threaded_section /\ m[i].snippet = ""
              THEN sections_from(lines, m, i + 1, FALSE, start_line,
                                 Append(sections, <<start_line, i>>))
              ELSE sections_from(lines, m, i + 1, in_threaded_section, start_line, sections)

find_threaded_sections(lines, m) == sections_from(lines, m, 1, FALSE, 0, <<>>)

\* find_shared_resource_access passing over the lines that hold a lock keyword.
find_shared_resource_access_unlocked(lines, start, end, m) ==
    Flatten([k \in 1..(end - start) |->
                LET i == start + k - 1
                IN  IF m[i].shared /\ ~m[i].lock THEN <<i>> ELSE <<>>])

\* for i in range(start, end): lines[i - 1], 0-based (line i here)
find_shared_resource_access(lines, start, end, m) ==
    Flatten([k \in 1..(end - start) |->
                LET i == start + k - 1
                IN  IF m[i].shared THEN <<i>> ELSE <<>>])

file_recommendations ==
    << "Use file locking mechanisms", "Implement proper error handling",
       "Consider using atomic operations", "Add retry logic with exponential backoff" >>

variable_recommendations ==
    << "Use threading.Lock for variable access", "Consider using atomic operations",
       "Use thread-safe data structures", "Implement proper synchronization" >>

database_recommendations ==
    << "Use database transactions", "Implement proper rollback mechanisms",
       "Add retry logic for failed operations", "Consider using database-level locking" >>

threading_recommendations ==
    << "Use threading.Lock or threading.RLock", "Consider using threading.Semaphore",
       "Implement proper thread coordination", "Use thread-safe data structures" >>

missing_lock_recommendations ==
    << "Add appropriate locks around shared resource access",
       "Use context managers for lock management", "Consider using atomic operations",
       "Implement proper resource isolation" >>

\* The number of patterns of every category of the registry.
PatternCount == 5

\* for i, line in enumerate(lines, 1): for pattern in patterns[category]: ...
EachLineEachPattern(lines, found(_, _)) ==
    Flatten([i \in 1..Len(lines) |-> Flatten([k \in 1..PatternCount |-> found(i, k)])])

\* detect_file_races numbering lines from 0: enumerate(lines) without start=1.
detect_file_races_zero_based(file_path, lines, m) ==
    LET found(i, k) ==
            IF m[i].search.file_race[k] /\ ~check_for_locks(lines, i, m)
            THEN << RaceCondition(file_path, i - 1, "File Operation Race",
                        "File operation detected without proper synchronization",
                        "HIGH", m[i].snippet, file_recommendations) >>
            ELSE <<>>
    IN  EachLineEachPattern(lines, found)

\* detect_file_races asking for locks at the first match of a line only: the
\* later matches of the line are reported whatever stands around it.
detect_file_races_guarding_first(file_path, lines, m) ==
    LET found(i, k) ==
            IF /\ m[i].search.file_race[k]
               /\ \/ \E j \in 1..(k - 1) : m[i].search.file_race[j]
                  \/ ~check_for_locks(lines, i, m)
            THEN << RaceCondition(file_path, i, "File Operation Race",
                        "File operation detected without proper synchronization",
                        "HIGH", m[i].snippet, file_recommendations) >>
            ELSE <<>>
    IN  EachLineEachPattern(lines, found)

\* detect_file_races leaving the pattern loop at the first match of a line.
detect_file_races_once(file_path, lines, m) ==
    LET found(i, k) ==
            IF /\ m[i].search.file_race[k]
               /\ \A j \in 1..(k - 1) : ~m[i].search.file_race[j]
               /\ ~check_for_locks(lines, i, m)
            THEN << RaceCondition(file_path, i, "File Operation Race",
                        "File operation detected without proper synchronization",
                        "HIGH", m[i].snippet, file_recommendations) >>
            ELSE <<>>
    IN  EachLineEachPattern(lines, found)

detect_file_races(file_path, lines, m) ==
    LET found(i, k) ==
            IF m[i].search.file_race[k] /\ ~check_for_locks(lines, i, m)
            THEN << RaceCondition(file_path, i, "File Operation Race",
                        "File operation detected without proper synchronization",
                        "HIGH", m[i].snippet, file_recommendations) >>
            ELSE <<>>
    IN  EachLineEachPattern(lines, found)

\* detect_variable_races reporting its findings with severity LOW.
detect_variable_races_low(file_path, lines, m) ==
    LET found(i, k) ==
            IF m[i].search.variable_race[k] /\ is_in_threaded_context(lines, i, m)
            THEN << RaceCondition(file_path, i, "Variable Race",
                        "Variable '" \o m[i].variable[k]
                            \o "' modified without synchronization in threaded context",
                        "LOW", m[i].snippet, variable_recommendations) >>
            ELSE <<>>
    IN  EachLineEachPattern(lines, found)

detect_variable_races(file_path, lines, m) ==
    LET found(i, k) ==
            IF m[i].search.variable_race[k] /\ is_in_threaded_context(lines, i, m)
            THEN << RaceCondition(file_path, i, "Variable Race",
                        "Variable '" \o m[i].variable[k]
                            \o "' modified without synchronization in threaded context",
                        "MEDIUM", m[i].snippet, variable_recommendations) >>
            ELSE <<>>
    IN  EachLineEachPattern(lines, found)

detect_database_races(file_path, lines, m) ==
    LET found(i, k) ==
            IF m[i].search.database_race[k] /\ ~check_for_transactions(lines, i, m)
            THEN << RaceCondition(file_path, i, "Database Race",
                        "Database operation without proper transaction handling",
                        "HIGH", m[i].snippet, database_recommendations) >>
            ELSE <<>>
    IN  EachLineEachPattern(lines, found)

detect_threading_races(file_path, lines, m) ==
    LET found(i, k) ==
            IF m[i].search.thread_race[k] /\ ~check_for_synchronization(lines, i, m)
            THEN << RaceCondition(file_path, i, "Threading Race",
                        "Threading operation without proper synchronization",
                        "HIGH", m[i].snippet, threading_recommendations) >>
            ELSE <<>>
    IN  EachLineEachPattern(lines, found)

detect_missing_locks(file_path, lines, m) ==
    LET threaded_sections == find_threaded_sections(lines, m)
        found(line_num) ==
            RaceCondition(file_path, line_num, "Missing Lock",
                "Shared resource accessed without proper locking",
                "HIGH", m[line_num].snippet, missing_lock_recommendations)
    IN  Flatten([s \in 1..Len(threaded_sections) |->
                    LET shared_access ==
                            find_shared_resource_access(lines, threaded_sections[s][1],
                                                        threaded_sections[s][2], m)
                    IN  [n \in 1..Len(shared_access) |-> found(shared_access[n])]])

\* analyse with the missing-lock detector run before the threading detector.
analyse_misordered(file_path, lines) ==
    LET m == facts_of(lines)
    IN  detect_file_races(file_path, lines, m)
            \o detect_variable_races(file_path, lines, m)
            \o detect_database_races(file_path, lines, m)
            \o detect_missing_locks(file_path, lines, m)
            \o detect_threading_races(file_path, lines, m)

\* The five detectors over the lines of one file, in scan_file's order.
analyse(file_path, lines) ==
    LET m == facts_of(lines)
    IN  detect_file_races(file_path, lines, m)
            \o detect_variable_races(file_path, lines, m)
            \o detect_database_races(file_path, lines, m)
            \o detect_threading_races(file_path, lines, m)
            \o detect_missing_locks(file_path, lines, m)

\* lines[i] raises IndexError for a subscript outside -len(lines)..len(lines) - 1
raises_index_error(lines, i) == i < -Len(lines) \/ i >= Len(lines)

\* The subscripts a mitigation check reads for line_num: those of its range
\* up to the first line that holds a keyword of the check (return True), or
\* up to the first that raises.
read_by_check(lines, line_num, radius, m, keyword) ==
    LET subs == window(lines, line_num, radius)
    IN  {i \in subs :
            \A j \in subs : j < i => ~raises_index_error(lines, j) /\ ~m[j + 1][keyword]}

\* The line numbers a pattern-based detector passes to its check: those of
\* the lines some pattern of the category matches.
matched_lines(lines, m, category) ==
    {i \in 1..Len(lines) : \E k \in 1..PatternCount : m[i].search[category][k]}

\* lines[i - 1] for i in range(start, end), for every threaded section
shared_access_subscripts(lines, m) ==
    LET threaded_sections == find_threaded_sections(lines, m)
    IN  UNION {{i - 1 : i \in threaded_sections[s][1]..(threaded_sections[s][2] - 1)} :
                  s \in 1..Len(threaded_sections)}

\* lines[line_num - 1] for every line_num of shared_access, for every section
snippet_subscripts(lines, m) ==
    LET threaded_sections == find_threaded_sections(lines, m)
    IN  UNION {LET shared_access ==
                       find_shared_resource_access(lines, threaded_sections[s][1],
                                                   threaded_sections[s][2], m)
               IN  {shared_access[n] - 1 : n \in 1..Len(shared_access)} :
                  s \in 1..Len(threaded_sections)}

\* Every subscript the analysis of a file applies to lines.
subscripts(lines, m) ==
    UNION {read_by_check(lines, i, LockRadius, m, "lock") :
              i \in matched_lines(lines, m, "file_race")}
    \cup UNION {read_by_check(lines, i, TransactionRadius, m, "transaction") :
                    i \in matched_lines(lines, m, "database_race")}
    \cup UNION {read_by_check(lines, i, SyncRadius, m, "sync") :
                    i \in matched_lines(lines, m, "thread_race")}
    \cup shared_access_subscripts(lines, m)
    \cup snippet_subscripts(lines, m)

(***************************************************************************)
(* Files and directories.  A tree is a root directory with its files and   *)
(* its sub-directories, both in the order the listing returns them.        *)
(***************************************************************************)

File(name, content, readable) == [name |-> name, content |-> content, readable |-> readable]

\* os.path.join(root, file) for a relative file name
path_join(root, file) == root \o "/" \o file

\* The last path component.
basename(path) ==
    LET slashes == {i \in 1..Len(path) : Char(path, i) = "/"}
    IN  IF slashes = {} THEN path
        ELSE Slice(path, (CHOOSE i \in slashes : \A j \in slashes : j <= i) + 1, Len(path))

\* Path(file_path).suffix: from the last dot of the name, unless the name
\* starts or ends with that dot.
suffix(file_path) ==
    LET name == basename(file_path)
        dots == {i \in 1..Len(name) : Char(name, i) = "."}
        i == CHOOSE d \in dots : \A e \in dots : e <= d
    IN  IF dots = {} THEN ""
        ELSE IF 1 < i /\ i < Len(name) THEN Slice(name, i, Len(name)) ELSE ""

\* os.walk(directory): (root, dirs, files) of the top directory, then of
\* each sub-directory in listing order.
walk(fs) ==
    << [root |-> fs.root, dirs |-> [d \in 1..Len(fs.dirs) |-> fs.dirs[d].name],
        files |-> [f \in 1..Len(fs.files) |-> fs.files[f].name]] >>
    \o [d \in 1..Len(fs.dirs) |->
          [root |-> path_join(fs.root, fs.dirs[d].name), dirs |-> <<>>,
           files |-> [f \in 1..Len(fs.dirs[d].files) |-> fs.dirs[d].files[f].name]]]

\* Every file of the tree with its full path.
entries(fs) ==
    [f \in 1..Len(fs.files) |->
        [path |-> path_join(fs.root, fs.files[f].name), file |-> fs.files[f]]]
    \o Flatten([d \in 1..Len(fs.dirs) |->
          [f \in 1..Len(fs.dirs[d].files) |->
              [path |-> path_join(path_join(fs.root, fs.dirs[d].name), fs.dirs[d].files[f].name),
               file |-> fs.dirs[d].files[f]]]])

paths(fs) == {entries(fs)[e].path : e \in 1..Len(entries(fs))}

\* open(file_path, 'r', encoding='utf-8').read(): the text, or a failure for
\* a path that is no file or a file that cannot be read or decoded.
read_file(fs, file_path) ==
    LET found == {e \in 1..Len(entries(fs)) : entries(fs)[e].path = file_path}
    IN  IF found = {} THEN [ok |-> FALSE, content |-> ""]
        ELSE LET f == entries(fs)[CHOOSE e \in found : TRUE].file
             IN  IF f.readable THEN [ok |-> TRUE, content |-> f.content]
                 ELSE [ok |-> FALSE, content |-> ""]

(***************************************************************************)
(* The entry points.  Each returns its result together with the detector   *)
(* it was called on (self), whose fields it leaves as they were, and the   *)
(* exception it lets through to its caller ("none" when it returns).       *)
(***************************************************************************)

\* scan_file collecting into self.race_conditions instead of a local list.
scan_file_accumulating(self, fs, file_path) ==
    LET text == read_file(fs, file_path)
        found == IF ~text.ok THEN <<>> ELSE analyse(file_path, split(text.content))
        all == self.race_conditions \o found
    IN  [ret |-> all, self |-> [self EXCEPT !.race_conditions = all], raised |-> "none"]

\* scan_file without its try/except around open and read.
scan_file_uncaught(self, fs, file_path) ==
    LET text == read_file(fs, file_path)
    IN  IF ~text.ok THEN [ret |-> <<>>, self |-> self, raised |-> "OSError"]
        ELSE [ret |-> analyse(file_path, split(text.content)), self |-> self,
              raised |-> "none"]

\* except Exception: the failure of open or read is logged and the empty
\* list returned.  The detectors run after the try statement: an IndexError
\* of theirs would reach the caller.
scan_file(self, fs, file_path) ==
    LET text == read_file(fs, file_path)
        lines == split(text.content)
    IN  IF ~text.ok THEN [ret |-> <<>>, self |-> self, raised |-> "none"]
        ELSE IF \E i \in subscripts(lines, facts_of(lines)) : raises_index_error(lines, i)
             THEN [ret |-> <<>>, self |-> self, raised |-> "IndexError"]
             ELSE [ret |-> analyse(file_path, lines), self |-> self, raised |-> "none"]

\* The file paths of the walk, in the order the two loops visit them.
walk_paths(fs) ==
    Flatten([w \in 1..Len(walk(fs)) |->
                [f \in 1..Len(walk(fs)[w].files) |->
                    path_join(walk(fs)[w].root, walk(fs)[w].files[f])]])

RECURSIVE scan_each_unfiltered(_, _, _, _, _, _)
\* scan_each without the test of the file's suffix.
scan_each_unfiltered(self, fs, visit, i, all_conditions, scanned) ==
    IF i > Len(visit)
    THEN [ret |-> all_conditions, calls |-> scanned, self |-> self, raised |-> "none"]
    ELSE LET r == scan_file(self, fs, visit[i])
         IN  scan_each_unfiltered(r.self, fs, visit, i + 1, all_conditions \o r.ret,
                                  Append(scanned, visit[i]))

RECURSIVE scan_each(_, _, _, _, _, _)

\* The walk after scan_file has come back with r from the i-th path: an
\* exception out of it would end the walk and leave no list.
extend_all(fs, visit, i, all_conditions, scanned, r) ==
    IF r.raised # "none"
    THEN [ret |-> <<>>, calls |-> Append(scanned, visit[i]), self |-> r.self,
          raised |-> r.raised]
    ELSE scan_each(r.self, fs, visit, i + 1, all_conditions \o r.ret, Append(scanned, visit[i]))

\* The body of scan_directory's loops from the i-th visited path on.
scan_each(self, fs, visit, i, all_conditions, scanned) ==
    IF i > Len(visit)
    THEN [ret |-> all_conditions, calls |-> scanned, self |-> self, raised |-> "none"]
    ELSE IF suffix(visit[i]) \in self.supported_extensions
         THEN extend_all(fs, visit, i, all_conditions, scanned, scan_file(self, fs, visit[i]))
         ELSE scan_each(self, fs, visit, i + 1, all_conditions, scanned)

scan_directory(self, fs, directory) == scan_each(self, fs, walk_paths(fs), 1, <<>>, <<>>)

RECURSIVE str(_)
\* str(n) for n >= 0
str(n) == IF n < 10 THEN Char(Digits, n + 1) ELSE str(n \div 10) \o Char(Digits, (n % 10) + 1)

\* count_severity with the MEDIUM label mistyped.
count_severity_mistyped(cs, severity) ==
    Cardinality({i \in 1..Len(cs) :
                    cs[i].severity = (IF severity = "MEDIUM" THEN "Medium" ELSE severity)})

\* len([c for c in conditions if c.severity == severity])
count_severity(cs, severity) == Cardinality({i \in 1..Len(cs) : cs[i].severity = severity})

\* The dictionary that json.dumps serialises, keys in this order.
json_report(cs) ==
    [summary |-> [total_conditions |-> Len(cs),
                  high_severity |-> count_severity(cs, "HIGH"),
                  medium_severity |-> count_severity(cs, "MEDIUM"),
                  low_severity |-> count_severity(cs, "LOW")],
     conditions |-> cs]

\* The head of the text report, as its lines.
text_summary(cs) ==
    << "Race Condition Security Report",
       "==================================================", "",
       "Total conditions found: " \o str(Len(cs)),
       "High severity: " \o str(count_severity(cs, "HIGH")),
       "Medium severity: " \o str(count_severity(cs, "MEDIUM")),
       "Low severity: " \o str(count_severity(cs, "LOW")), "" >>

\* text_finding with the category and the severity in each other's place.
text_finding_swapped(condition) ==
    << "File: " \o condition.file_path \o ":" \o str(condition.line_number),
       "Type: " \o condition.severity,
       "Severity: " \o condition.race_type,
       "Description: " \o condition.description,
       "Code: " \o condition.code_snippet,
       "Recommendations:" >>
    \o [r \in 1..Len(condition.recommendations) |-> "  - " \o condition.recommendations[r]]
    \o <<"">>

\* The lines the text report holds for one finding.
text_finding(condition) ==
    << "File: " \o condition.file_path \o ":" \o str(condition.line_number),
       "Type: " \o condition.race_type,
       "Severity: " \o condition.severity,
       "Description: " \o condition.description,
       "Code: " \o condition.code_snippet,
       "Recommendations:" >>
    \o [r \in 1..Len(condition.recommendations) |-> "  - " \o condition.recommendations[r]]
    \o <<"">>

\* A text, as its lines (each ends with a newline in the text).
Text(lines) == [lines |-> lines]

\* The empty string: a text of no line.
EmptyText == Text(<<>>)

text_report(cs) == Text(text_summary(cs) \o Flatten([i \in 1..Len(cs) |-> text_finding(cs[i])]))

\* generate_report taking every format but text for json.
generate_report_json_default(cs, output_format) ==
    IF output_format = "text" THEN text_report(cs) ELSE json_report(cs)

generate_report(cs, output_format) ==
    IF output_format = "json" THEN json_report(cs)
    ELSE IF output_format = "text" THEN text_report(cs)
    ELSE EmptyText

(***************************************************************************)
(* The callers: a detector is created, pointed at a file or a directory,   *)
(* and the list it returns is handed to generate_report.                   *)
(***************************************************************************)

Detectors == {"d1", "d2"}

Formats == {"json", "text", "html"}

NoReport == [output_format |-> "none", out |-> EmptyText]

NoPrevious == [repeated |-> FALSE, ret |-> <<>>]

\* RaceConditionDetector(): the fields __init__ sets.
NewDetector == [race_conditions |-> <<>>, supported_extensions |-> supported_extensions]

Root == "proj"

MissingPath == path_join(Root, "missing.py")

\* detector.scan_file(path)
ScanFile(d, path) ==
    \E r \in {scan_file(detector[d], tree, path)} :
        /\ detector' = [detector EXCEPT ![d] = r.self]
        /\ entry' = "scan_file"
        /\ calls' = <<path>>
        /\ conditions' = r.ret
        /\ previous' = IF entry = "scan_file" /\ calls = <<path>>
                       THEN [repeated |-> TRUE, ret |-> conditions]
                       ELSE NoPrevious
        /\ report' = NoReport
        /\ raised' = r.raised
        /\ UNCHANGED <<tree, web, threads, gui>>

\* detector.scan_directory(root)
ScanDirectory(d) ==
    \E r \in {scan_directory(detector[d], tree, tree.root)} :
        /\ detector' = [detector EXCEPT ![d] = r.self]
        /\ entry' = "scan_directory"
        /\ calls' = r.calls
        /\ conditions' = r.ret
        /\ previous' = IF entry = "scan_directory"
                       THEN [repeated |-> TRUE, ret |-> conditions]
                       ELSE NoPrevious
        /\ report' = NoReport
        /\ raised' = r.raised
        /\ UNCHANGED <<tree, web, threads, gui>>

\* detector.generate_report(conditions, output_format) on the list last returned
GenerateReport(d, output_format) ==
    /\ entry # "none"
    /\ report' = [output_format |-> output_format,
                  out |-> generate_report(conditions, output_format)]
    /\ raised' = "none"
    /\ UNCHANGED <<tree, detector, entry, calls, conditions, previous, web, threads, gui>>

(***************************************************************************)
(* The web application (app.py).  Its five scanning routes write the       *)
(* content they are given to a scratch file, scan the file with the        *)
(* module-level detector and remove the file.                              *)
(***************************************************************************)

Routes == {"scan", "scan-text", "scan-url", "scan-website", "execute"}

\* What the application has sent back: nothing yet; jsonify({'error': ...});
\* the report of a scanning route; the report of the execute route.
NoResponse == [sent |-> FALSE]

\* jsonify({'error': message})
error(message) == [error |-> message]

NoExecution == [success |-> FALSE, return_code |-> 0, execution_time |-> "none", warnings |-> <<>>]

\* The request being served or served last: its route and what it carried,
\* where its handler stands, the status and body of its response, its
\* scratch file, what execute_code_safely returned to it, and the body and
\* the response of the request served before it.
NoRequest ==
    [route |-> "none", request |-> [sent |-> FALSE], pc |-> "idle", status |-> 0,
     response |-> NoResponse, scratch |-> "", execution |-> NoExecution, requests |-> 0,
     before |-> [route |-> "none", body |-> [sent |-> FALSE], status |-> 0,
                 response |-> NoResponse]]

\* The suffix of the scratch file: .py for an upload, else the one the
\* language names, else the route's default.
scratch_suffix(route, language) ==
    LET extension == [python |-> ".py", javascript |-> ".js", typescript |-> ".ts",
                      java |-> ".java", cpp |-> ".cpp", c |-> ".c", go |-> ".go", rust |-> ".rs"]
    IN  IF route = "scan" THEN ".py"
        ELSE IF language \in DOMAIN extension THEN extension[language]
        ELSE IF route = "scan-website" THEN ".js" ELSE ".py"

\* The directory with one more file in it, and with one file less.
with_file(fs, file) == [fs EXCEPT !.files = Append(@, file)]

without_file(fs, name) == LET Other(f) == f.name # name IN [fs EXCEPT !.files = SelectSeq(@, Other)]

\* The message of the first check of each handler.
missing_message(route) ==
    CASE route = "scan" -> "No file uploaded"
      [] route = "scan-text" -> "No content provided"
      [] route = "scan-url" -> "No URL provided"
      [] route = "scan-website" -> "No domain provided"
      [] route = "execute" -> "No code provided"

\* f'Scan failed: {str(e)}', f'Execution failed: {str(e)}'
failed_message(route, e) ==
    (IF route = "execute" THEN "Execution failed: " ELSE "Scan failed: ") \o e

\* return jsonify({'error': message}), 400: before any file is made
refused(self, fs, message) ==
    [fs |-> fs, scratch |-> "", ret |-> <<>>, scanned |-> <<>>, report |-> NoReport,
     self |-> self, pc |-> "responded", status |-> 400, response |-> error(message),
     execution |-> NoExecution, raised |-> "none"]

\* The handler with no except clause: the exception leaves it.
uncaught(self, fs, scratch, route, e) ==
    [fs |-> fs, scratch |-> scratch, ret |-> <<>>, scanned |-> <<>>, report |-> NoReport,
     self |-> self, pc |-> "responded", status |-> 0, response |-> NoResponse,
     execution |-> NoExecution, raised |-> e]

\* except Exception as e: return jsonify({'error': ...}), 500
caught(self, fs, scratch, route, e) ==
    [fs |-> fs, scratch |-> scratch, ret |-> <<>>, scanned |-> <<>>, report |-> NoReport,
     self |-> self, pc |-> "responded", status |-> 500,
     response |-> error(failed_message(route, e)), execution |-> NoExecution, raised |-> "none"]

\* subprocess.run(argv, capture_output=True, text=True, timeout=timeout) on
\* a child that behaves as process says: the interpreter is not installed;
\* the timeout is no number; the child is killed when the timeout expires;
\* the child ends, having removed its script or not; or the child never ends
\* and no timeout was given, and the call never comes back.
subprocess_run(timeout, process) ==
    LET back == [returned |-> TRUE, raised |-> "none", returncode |-> 0, removed |-> FALSE]
    IN  IF ~process.found THEN [back EXCEPT !.raised = "FileNotFoundError"]
        ELSE IF timeout.kind = "text" THEN [back EXCEPT !.raised = "TypeError"]
        ELSE IF timeout.kind = "number" /\ (~process.halts \/ process.seconds > timeout.seconds)
        THEN [back EXCEPT !.raised = "TimeoutExpired"]
        ELSE IF process.halts
        THEN [back EXCEPT !.returncode = process.returncode, !.removed = process.removes]
        ELSE [back EXCEPT !.returned = FALSE]

\* The languages execute_code_safely runs an interpreter for.
Interpreted == {"python", "javascript"}

\* execute_code_safely once subprocess.run has come back as run says (the
\* child's own output, stdout and stderr, is left out of the result).
execute_code_safely(file_path, language, timeout, run) ==
    IF language \in Interpreted
    THEN IF run.raised = "none"
         THEN [success |-> run.returncode = 0, return_code |-> run.returncode,
               execution_time |-> "completed", warnings |-> <<>>]
         ELSE IF run.raised = "TimeoutExpired"
         THEN [success |-> FALSE, return_code |-> -1, execution_time |-> "timeout",
               warnings |-> <<"Execution was terminated due to timeout">>]
         ELSE [success |-> FALSE, return_code |-> -1, execution_time |-> "error",
               warnings |-> <<"Execution failed due to system error">>]
    ELSE [success |-> FALSE, return_code |-> -1, execution_time |-> "not_supported",
          warnings |-> <<"Live execution not available for " \o language>>]

\* report_data['scan_results'] of the execute route
scan_results(cs) ==
    [conditions |->
        [i \in 1..Len(cs) |->
            [race_type |-> cs[i].race_type, description |-> cs[i].description,
             severity |-> cs[i].severity, line_number |-> cs[i].line_number,
             code_snippet |-> cs[i].code_snippet, recommendations |-> cs[i].recommendations]],
     total_conditions |-> Len(cs),
     high_severity |-> count_severity(cs, "HIGH"),
     medium_severity |-> count_severity(cs, "MEDIUM"),
     low_severity |-> count_severity(cs, "LOW")]

\* The execute handler after scan_file has returned r: the code is run, the
\* report is made and the finally clause unlinks the file.  A call of
\* subprocess.run that never comes back leaves the handler waiting in it; a
\* child that has removed the file makes os.unlink raise.
executed(written, name, temp_file_path, request, r, run) ==
    IF request.language \in Interpreted /\ ~run.returned
    THEN [fs |-> written, scratch |-> temp_file_path, ret |-> r.ret,
          scanned |-> <<temp_file_path>>, report |-> NoReport, self |-> r.self,
          pc |-> "blocked", status |-> 0, response |-> NoResponse,
          execution |-> NoExecution, raised |-> "none"]
    ELSE IF request.language \in Interpreted /\ run.removed
    THEN [caught(r.self, without_file(written, name), temp_file_path, "execute",
                 "FileNotFoundError")
            EXCEPT !.ret = r.ret, !.scanned = <<temp_file_path>>,
                   !.execution = execute_code_safely(temp_file_path, request.language,
                                                     request.timeout, run)]
    ELSE [fs |-> without_file(written, name), scratch |-> temp_file_path, ret |-> r.ret,
          scanned |-> <<temp_file_path>>, report |-> NoReport, self |-> r.self,
          pc |-> "responded", status |-> 200,
          response |-> [scan_results |-> scan_results(r.ret),
                        execution_results |->
                            execute_code_safely(temp_file_path, request.language,
                                                request.timeout, run)],
          execution |-> execute_code_safely(temp_file_path, request.language,
                                            request.timeout, run),
          raised |-> "none"]

\* The handler after scan_file has returned r: the report is made, the
\* finally clause unlinks the file and the response is returned.
respond(route, written, name, temp_file_path, request, r) ==
    IF route = "execute"
    THEN executed(written, name, temp_file_path, request, r,
                  subprocess_run(request.timeout, request.process))
    ELSE [fs |-> without_file(written, name), scratch |-> temp_file_path,
          ret |-> r.ret, scanned |-> <<temp_file_path>>,
          report |-> [output_format |-> "json", out |-> generate_report(r.ret, "json")],
          self |-> r.self, pc |-> "responded", status |-> 200,
          response |-> [report |-> generate_report(r.ret, "json")],
          execution |-> NoExecution, raised |-> "none"]

\* A request handler from its first line to its return.  The body is the
\* content the request carries and what becomes of it on the way: it is
\* missing from the request, has no file name, is no JSON, cannot be
\* fetched or decoded, cannot be written to the file, or is written as text.
handle(self, fs, route, request, name) ==
    LET temp_file_path == path_join(fs.root, name)
        body == request.body
    IN  IF body.kind = "missing" THEN refused(self, fs, missing_message(route))
        ELSE IF body.kind = "unnamed" THEN refused(self, fs, "No file selected")
        ELSE IF body.kind = "malformed" THEN caught(self, fs, "", route, "BadRequest")
        ELSE IF body.kind = "unfetchable"
        THEN refused(self, fs, "Failed to fetch URL: ConnectionError")
        ELSE IF body.kind = "undecodable" THEN caught(self, fs, "", route, "UnicodeDecodeError")
        ELSE IF body.kind = "unwritable"
        THEN caught(self, with_file(fs, File(name, "", TRUE)), temp_file_path, route, "TypeError")
        ELSE respond(route, with_file(fs, File(name, body.content, TRUE)), name, temp_file_path,
                     request,
                     scan_file(self, with_file(fs, File(name, body.content, TRUE)),
                               temp_file_path))

\* What a request to the route may carry.
BodyKinds(route) ==
    {"missing", "unwritable", "text"}
        \cup (IF route = "scan" THEN {"unnamed", "undecodable"} ELSE {"malformed"})
        \cup (IF route \in {"scan-url", "scan-website"} THEN {"unfetchable"} ELSE {})

MaxRequests == 2

\* A request to one of the routes, served by the module-level detector.  No
\* request is served while a handler waits in subprocess.run.
WebRequest(route, request) ==
    /\ web.requests < MaxRequests
    /\ web.pc # "blocked"
    /\ \E h \in {handle(detector["d1"], tree, route, request,
                        "tmp" \o str(web.requests)
                            \o scratch_suffix(route, request.language))} :
           /\ tree' = h.fs
           /\ detector' = [detector EXCEPT !["d1"] = h.self]
           /\ web' = [route |-> route, request |-> request, pc |-> h.pc, status |-> h.status,
                      response |-> h.response, scratch |-> h.scratch,
                      execution |-> h.execution, requests |-> web.requests + 1,
                      before |-> [route |-> web.route,
                                  body |-> IF web.route = "none" THEN [sent |-> FALSE]
                                           ELSE web.request.body,
                                  status |-> web.status, response |-> web.response]]
           /\ entry' = "handler"
           /\ calls' = h.scanned
           /\ conditions' = h.ret
           /\ previous' = NoPrevious
           /\ report' = h.report
           /\ raised' = h.raised
           /\ UNCHANGED <<threads, gui>>

(***************************************************************************)
(* Scans running at the same time on one detector: the request threads of  *)
(* the web application, the scan threads of the GUI.  Each thread runs     *)
(* scan_file or scan_directory statement by statement on its own locals    *)
(* and on the shared self, then generate_report on what was returned.      *)
(***************************************************************************)

Threads == {"t1", "t2"}

Idle ==
    [pc |-> "idle", op |-> "none", path |-> "", lines |-> <<>>, k |-> 0, conditions |-> <<>>,
     ret |-> <<>>, report |-> EmptyText, overlapped |-> FALSE]

\* The k-th detector call of scan_file.
detect(k, file_path, lines, m) ==
    CASE k = 1 -> detect_file_races(file_path, lines, m)
      [] k = 2 -> detect_variable_races(file_path, lines, m)
      [] k = 3 -> detect_database_races(file_path, lines, m)
      [] k = 4 -> detect_threading_races(file_path, lines, m)
      [] k = 5 -> detect_missing_locks(file_path, lines, m)

\* extend collecting into self.race_conditions, the list of the detector.
extend_shared(self, local, found) ==
    [self |-> [self EXCEPT !.race_conditions = @ \o found],
     local |-> [local EXCEPT !.conditions = self.race_conditions \o found, !.k = @ + 1]]

\* conditions.extend(found): the list is a local of the call.
extend(self, local, found) ==
    [self |-> self, local |-> [local EXCEPT !.conditions = @ \o found, !.k = @ + 1]]

\* return conditions
return(self, local) ==
    [self |-> self, local |-> [local EXCEPT !.ret = local.conditions, !.pc = "report"]]

\* The next statement of the thread with these locals.
thread_step(self, fs, local) ==
    IF local.pc = "open"
    THEN LET text == read_file(fs, local.path)
         IN  IF ~text.ok THEN return(self, local)
             ELSE [self |-> self,
                   local |-> [local EXCEPT !.lines = split(text.content), !.k = 1,
                                           !.pc = "detect"]]
    ELSE IF local.pc = "detect"
    THEN IF local.k > 5 THEN return(self, local)
         ELSE extend(self, local,
                     detect(local.k, local.path, local.lines, facts_of(local.lines)))
    ELSE IF local.pc = "walk"
    THEN IF local.k > Len(walk_paths(fs)) THEN return(self, local)
         ELSE IF suffix(walk_paths(fs)[local.k]) \in self.supported_extensions
         THEN extend(self, local, scan_file(self, fs, walk_paths(fs)[local.k]).ret)
         ELSE extend(self, local, <<>>)
    ELSE [self |-> self,
          local |-> [local EXCEPT !.report = generate_report(local.ret, "json"),
                                  !.pc = "done"]]

\* A thread is given a scan to run.
ThreadStart(t, op, path) ==
    /\ threads[t].pc = "idle"
    /\ threads' = [threads EXCEPT ![t] =
                      [Idle EXCEPT !.op = op, !.path = path, !.k = 1,
                                   !.pc = IF op = "scan_file" THEN "open" ELSE "walk"]]
    /\ UNCHANGED <<tree, detector, entry, calls, conditions, previous, report, raised, web, gui>>

Running(local) == local.pc \notin {"idle", "done"}

\* A thread runs its next statement.
ThreadStep(t) ==
    /\ Running(threads[t])
    /\ \E r \in {thread_step(detector["d1"], tree, threads[t])} :
           /\ detector' = [detector EXCEPT !["d1"] = r.self]
           /\ threads' = [threads EXCEPT ![t] =
                             [r.local EXCEPT !.overlapped =
                                 @ \/ \E o \in Threads \ {t} : Running(threads[o])]]
    /\ UNCHANGED <<tree, entry, calls, conditions, previous, report, raised, web, gui>>

(***************************************************************************)
(* The inputs.                                                             *)
(***************************************************************************)

MaxLen == 3

MaxPad == 1

MaxGap == 21

MaxFiles == 2

Seqs(S, n) == UNION {[1..k -> S] : k \in 0..n}

\* Lines that belong together: file operations and locks; compound
\* assignments and threading tokens; threaded regions; database operations.
LineGroups ==
    { {"", "pass", "    f = open('f','a')", "f.write(data)", "with lock:", "    lock.acquire()",
       "with open('f','a') as f:"},
      {"", "counter += 1", "x = x + 1", "import threading", "t.start()",
       "await asyncio.sleep(1)", "total += f.read()"},
      {"", "    ", "import threading", "t = threading.Thread(target=run)",
       "shared_data.append(item)", "total = count"},
      {"db.run('UPDATE accounts')", "db.run('BEGIN TRANSACTION')", "conn.commit()",
       "t.join()", "import concurrent.futures", "T = THREADING.THREAD(TARGET=RUN)"} }

\* Every text of at most MaxLen lines of one group.
ShortTexts == {join(ls) : ls \in UNION {Seqs(g, MaxLen) : g \in LineGroups}}

MaxSectionLen == 5

\* Lines that open, fill and close threaded sections: a blank line, a line
\* creating a thread, an assignment naming a lock, an asyncio call.
SectionLines ==
    {"    ", "t = threading.Thread(target=run)", "locked = value", "await asyncio.sleep(1)"}

SectionTexts == {join(ls) : ls \in Seqs(SectionLines, MaxSectionLen) \ {<<>>}}

Pad(n) == [i \in 1..n |-> "pass"]

WindowLines ==
    {"open('f','a')", "with lock:", "db.run('UPDATE accounts')", "conn.commit()", "t.start()",
     "counter += 1", "import threading", "with open('f','a') as f:",
     "db.run('BEGIN TRANSACTION')"}

\* Two lines at every distance up to MaxGap + 1, after at most MaxPad lines.
WindowTexts ==
    {join(Pad(a) \o <<x>> \o Pad(g) \o <<y>>) :
        a \in 0..MaxPad, g \in 0..MaxGap, x \in WindowLines, y \in WindowLines}

SingleFile(content) == [root |-> Root, files |-> <<File("a.py", content, TRUE)>>, dirs |-> <<>>]

TextA == join(<<"import threading", "counter += 1">>)

TextB == "f.write(data)"

FileChoices ==
    { File("a.py", TextA, TRUE), File("b.js", TextB, TRUE), File("notes.txt", TextB, TRUE),
      File("c.PY", TextA, TRUE), File(".py", TextB, TRUE), File("d.rs", TextB, FALSE),
      File("e.tar.go", TextA, TRUE) }

SubDirChoices ==
    { <<>>, <<[name |-> "sub", files |-> <<>>]>>,
      <<[name |-> "sub", files |-> <<File("a.py", TextB, TRUE)>>]>>,
      <<[name |-> "sub", files |-> <<File("README", TextA, TRUE)>>]>> }

\* Directory listings: at most MaxFiles files with different names, and at
\* most one sub-directory.
Trees ==
    {[root |-> Root, files |-> fs, dirs |-> ds] :
        fs \in {f \in Seqs(FileChoices, MaxFiles) :
                   \A i, j \in 1..Len(f) : i # j => f[i].name # f[j].name},
        ds \in SubDirChoices}

MaxFindings == 3

\* Findings as a caller may hand them to generate_report: any category's
\* label with any of the three severities of the dataclass.
FindingChoices ==
    {RaceCondition("a.py", 7, "File Operation Race", "File operation", sev, "f.write(data)",
                   file_recommendations) : sev \in {"HIGH", "MEDIUM", "LOW"}}
    \cup {RaceCondition("lib/b.js", 12, "Variable Race", "Variable 'n'", sev, "n += 1",
                        <<"Use atomic operations">>) : sev \in {"HIGH", "MEDIUM", "LOW"}}

\* The formats a caller may ask for, recognised or not.
ReportFormats == {"json", "text", "html", "JSON", ""}

TextC == join(<<"t = threading.Thread(target=run)", "total = count", "">>)

(***************************************************************************)
(* The desktop front end (race_condition_gui.py).  The handlers of the     *)
(* main thread, start_scan, update_results and show_error, run one at a    *)
(* time; perform_scan runs in a thread of its own for each scan and hands  *)
(* its result to the main thread with root.after.                          *)
(***************************************************************************)

\* setup_ui: the widgets with their class, their text and the widget each
\* was created in.
widgets ==
    [main_frame |-> [class |-> "Frame", text |-> "", master |-> "root"],
     path_entry |-> [class |-> "Entry", text |-> "", master |-> "main_frame"],
     browse_btn |-> [class |-> "Button", text |-> "Browse", master |-> "main_frame"],
     scan_btn |-> [class |-> "Button", text |-> "Scan for Race Conditions",
                   master |-> "main_frame"],
     progress |-> [class |-> "Progressbar", text |-> "", master |-> "main_frame"],
     export_btn |-> [class |-> "Button", text |-> "Export Report", master |-> "main_frame"],
     status_bar |-> [class |-> "Label", text |-> "", master |-> "main_frame"]]

\* widget.winfo_children(): the widgets created in this one
winfo_children(widget) == {w \in DOMAIN widgets : widgets[w].master = widget}

\* for widget in self.root.winfo_children():
\*     if isinstance(widget, ttk.Button) and widget.cget("text") == "Scan for ...":
\*         widget.configure(state=state)
configure_scan_button(states, state) ==
    [w \in DOMAIN states |->
        IF /\ w \in winfo_children("root")
           /\ widgets[w].class = "Button"
           /\ widgets[w].text = "Scan for Race Conditions"
        THEN state ELSE states[w]]

MaxScans == 2

ScanIds == 1..MaxScans

NoScan == [pc |-> "none", path |-> "", outcome |-> "none", callbacks |-> 0]

\* RaceConditionGUI(root) after setup_ui: the path entry is empty, the
\* progress bar stands still, the status is Ready, every widget is in its
\* normal state, there are no results, no dialog was shown, no callback
\* waits for the main loop and no scan thread was launched.
NewGui ==
    [path |-> "", progress |-> "stopped", status |-> "Ready",
     state |-> [w \in DOMAIN widgets |-> "normal"], results |-> <<>>, dialog |-> "",
     after |-> <<>>, scans |-> [id \in ScanIds |-> NoScan], launched |-> 0, last |-> "setup_ui"]

\* os.path.exists(path), os.path.isfile(path)
exists(fs, path) == path \in paths(fs) \/ path \in {walk(fs)[d].root : d \in 1..Len(walk(fs))}

isfile(fs, path) == path \in paths(fs)

\* start_scan, the command of the scan button
start_scan(self, fs) ==
    IF self.path = ""
    THEN [self EXCEPT !.dialog = "Please select a file or directory to scan.",
                      !.last = "start_scan"]
    ELSE IF ~exists(fs, self.path)
    THEN [self EXCEPT !.dialog = "Selected path does not exist.", !.last = "start_scan"]
    ELSE [self EXCEPT !.progress = "started",
                      !.status = "Scanning...",
                      !.state = configure_scan_button(@, "disabled"),
                      !.scans[self.launched + 1] =
                          [pc |-> "scan", path |-> self.path, outcome |-> "none",
                           callbacks |-> 0],
                      !.launched = @ + 1,
                      !.last = "start_scan"]

\* update_results(conditions), run by the main loop (the texts of the
\* summary and details tabs are left out)
update_results(self, cs) ==
    [self EXCEPT !.results = cs,
                 !.progress = "stopped",
                 !.status = "Scan complete. Found " \o str(Len(cs))
                                \o " potential race conditions.",
                 !.state = configure_scan_button(@, "normal"),
                 !.last = "update_results"]

\* show_error(error_msg), run by the main loop
show_error(self, error_msg) ==
    [self EXCEPT !.progress = "stopped",
                 !.status = "Scan failed",
                 !.state = configure_scan_button(@, "normal"),
                 !.dialog = "Scan failed: " \o error_msg,
                 !.last = "show_error"]

\* self.root.after(0, callback, argument) by the thread of scan id
root_after(self, id, callback, cs, error_msg) ==
    [self EXCEPT !.after = Append(@, [id |-> id, callback |-> callback,
                                       conditions |-> cs, error_msg |-> error_msg]),
                 !.scans[id].callbacks = @ + 1]

\* perform_scan showing the results itself, from its own thread.
perform_scan_unscheduled(self, id, fault, r) ==
    IF fault = "none" /\ r.raised = "none"
    THEN [update_results(self, r.ret) EXCEPT !.scans[id].pc = "done",
                                             !.scans[id].outcome = "returned"]
    ELSE [root_after(self, id, "show_error", <<>>, IF fault # "none" THEN fault ELSE r.raised)
            EXCEPT !.scans[id].pc = "done", !.scans[id].outcome = "raised"]

\* perform_scan(path) in the thread of scan id, the scan having returned r
\* or raised: the exception is the one scan_file or scan_directory left to
\* it, or a fault of the interpreter while they ran (a MemoryError).
perform_scan(self, id, fault, r) ==
    IF fault = "none" /\ r.raised = "none"
    THEN [root_after(self, id, "update_results", r.ret, "")
            EXCEPT !.scans[id].pc = "done", !.scans[id].outcome = "returned"]
    ELSE [root_after(self, id, "show_error", <<>>, IF fault # "none" THEN fault ELSE r.raised)
            EXCEPT !.scans[id].pc = "done", !.scans[id].outcome = "raised"]

\* The trees the front end is started before, the paths the user may enter
\* and what may go wrong while a scan runs.
GuiTrees ==
    {[root |-> Root, files |-> <<File("a.py", TextA, TRUE), File("b.js", b, TRUE)>>,
      dirs |-> <<>>] : b \in {TextB, TextC}}

GuiPaths == {"", MissingPath, path_join(Root, "a.py"), Root}

Faults == {"none", "MemoryError"}

\* if os.path.isfile(path): conditions = self.detector.scan_file(path)
\* else: conditions = self.detector.scan_directory(path)
\* for every tree and every path of it, computed once for each.
scan_path ==
    [fs \in GuiTrees |->
        [path \in {p \in GuiPaths : exists(fs, p)} |->
            IF isfile(fs, path) THEN scan_file(NewDetector, fs, path)
            ELSE scan_directory(NewDetector, fs, path)]]

GuiUnchanged ==
    UNCHANGED <<tree, detector, entry, calls, conditions, previous, report, raised, web, threads>>

\* The user browses to a path or types one.
SetPath(path) ==
    /\ gui' = [gui EXCEPT !.path = path]
    /\ GuiUnchanged

\* The user presses the scan button, which answers in its normal state only.
StartScan ==
    /\ gui.state["scan_btn"] = "normal"
    /\ gui.launched < MaxScans
    /\ gui' = start_scan(gui, tree)
    /\ GuiUnchanged

\* The thread of a scan runs perform_scan.
PerformScan(id, fault) ==
    /\ gui.scans[id].pc = "scan"
    /\ gui' = perform_scan(gui, id, fault, scan_path[tree][gui.scans[id].path])
    /\ GuiUnchanged

\* The main loop runs the callback that was scheduled first.
UpdateResults ==
    /\ Len(gui.after) > 0
    /\ Head(gui.after).callback = "update_results"
    /\ gui' = [update_results(gui, Head(gui.after).conditions)
                 EXCEPT !.after = Tail(gui.after), !.scans[Head(gui.after).id].pc = "shown"]
    /\ GuiUnchanged

ShowError ==
    /\ Len(gui.after) > 0
    /\ Head(gui.after).callback = "show_error"
    /\ gui' = [show_error(gui, Head(gui.after).error_msg)
                 EXCEPT !.after = Tail(gui.after), !.scans[Head(gui.after).id].pc = "shown"]
    /\ GuiUnchanged

(***************************************************************************)
(* The states the callers start in and the steps they take.                *)
(***************************************************************************)

InitOn(trees) ==
    /\ tree \in trees
    /\ detector = [d \in Detectors |-> NewDetector]
    /\ entry = "none"
    /\ calls = <<>>
    /\ conditions = <<>>
    /\ previous = NoPrevious
    /\ report = NoReport
    /\ raised = "none"
    /\ web = NoRequest
    /\ threads = [t \in Threads |-> Idle]
    /\ gui = NewGui

Init == InitOn({SingleFile(c) : c \in ShortTexts})

InitWindow == InitOn({SingleFile(c) : c \in WindowTexts})

InitSubscripts == InitOn({SingleFile(c) : c \in ShortTexts \cup WindowTexts})

InitDir == InitOn(Trees)

InitSections == InitOn({SingleFile(c) : c \in SectionTexts})

\* The web application started on an empty scratch directory.
InitWeb == InitOn({[root |-> "tmp", files |-> <<>>, dirs |-> <<>>]})

\* Two threads before a tree of two files.
InitThreads ==
    InitOn({[root |-> Root, files |-> <<File("a.py", a, TRUE), File("b.js", b, TRUE)>>,
             dirs |-> <<>>] : a \in {TextA, TextC}, b \in {TextB, TextC}})

\* A script that opens a file and then removes itself.
TextD == join(<<"open('f','a')", "import os, sys; os.remove(sys.argv[0])">>)

\* The contents and languages of the requests.
WebContents == {TextA, TextD}

WebLanguages == {"python", "javascript", "go", "cobol"}

\* The timeout a request to the execute route names: a number of seconds,
\* null, or a text.
Timeouts ==
    {[kind |-> "number", seconds |-> 1], [kind |-> "number", seconds |-> 10],
     [kind |-> "null", seconds |-> 0], [kind |-> "text", seconds |-> 0]}

\* A child that is not run.
NoProcess == [found |-> FALSE, halts |-> TRUE, seconds |-> 0, returncode |-> 0, removes |-> FALSE]

\* The children the interpreter may be: it is not installed; it runs the
\* code for some seconds and exits with a return code, having removed the
\* script it was given if the code says so; it runs the code for ever.
Processes ==
    {NoProcess}
        \cup {[found |-> TRUE, halts |-> TRUE, seconds |-> 5, returncode |-> c, removes |-> r] :
                 c \in {0, 1}, r \in BOOLEAN}
        \cup {[found |-> TRUE, halts |-> FALSE, seconds |-> 0, returncode |-> 0,
               removes |-> FALSE]}

\* A request whose body never becomes a scratch file.
Bare(kind) ==
    [body |-> [kind |-> kind, content |-> ""], language |-> "python",
     timeout |-> [kind |-> "number", seconds |-> 10], process |-> NoProcess]

\* What a request to the route carries, and the child it meets (none for a
\* language execute_code_safely starts no child for).
Requests(route) ==
    {Bare(kind) : kind \in BodyKinds(route) \ {"text"}}
        \cup {request \in
                 {[body |-> [kind |-> "text", content |-> content], language |-> language,
                   timeout |-> timeout, process |-> process] :
                     content \in WebContents,
                     language \in IF route = "scan" THEN {"python"} ELSE WebLanguages,
                     timeout \in IF route = "execute" THEN Timeouts
                                 ELSE {[kind |-> "number", seconds |-> 10]},
                     process \in IF route = "execute" THEN Processes ELSE {NoProcess}} :
                 /\ request.process.removes => request.body.content = TextD
                 /\ (route = "execute" /\ request.language \notin Interpreted) =>
                        /\ request.process = NoProcess
                        /\ request.timeout = [kind |-> "number", seconds |-> 10]}

\* The front end before a tree of two files.
InitGui == InitOn(GuiTrees)

\* A caller holding a list of findings of its own.
InitReport ==
    /\ tree = SingleFile("")
    /\ detector = [d \in Detectors |-> NewDetector]
    /\ entry = "caller"
    /\ calls = <<>>
    /\ conditions \in Seqs(FindingChoices, MaxFindings)
    /\ previous = NoPrevious
    /\ report = NoReport
    /\ raised = "none"
    /\ web = NoRequest
    /\ threads = [t \in Threads |-> Idle]
    /\ gui = NewGui

Next ==
    \/ \E d \in Detectors : \E path \in paths(tree) : ScanFile(d, path)
    \/ \E d \in Detectors : \E f \in Formats : GenerateReport(d, f)

NextDir ==
    \/ \E d \in Detectors : \E path \in paths(tree) \cup {MissingPath} : ScanFile(d, path)
    \/ \E d \in Detectors : ScanDirectory(d)
    \/ \E d \in Detectors : \E f \in Formats : GenerateReport(d, f)

NextReport == \E d \in Detectors : \E f \in ReportFormats : GenerateReport(d, f)

NextScan == \E d \in Detectors : \E path \in paths(tree) : ScanFile(d, path)

NextThreads ==
    \/ \E t \in Threads : \E path \in paths(tree) : ThreadStart(t, "scan_file", path)
    \/ \E t \in Threads : ThreadStart(t, "scan_directory", tree.root)
    \/ \E t \in Threads : ThreadStep(t)

NextWeb == \E route \in Routes : \E request \in Requests(route) : WebRequest(route, request)

NextGui ==
    \/ \E path \in GuiPaths : SetPath(path)
    \/ StartScan
    \/ \E id \in ScanIds : \E fault \in Faults : PerformScan(id, fault)
    \/ UpdateResults
    \/ ShowError

\* A caller scanning one short file.
Spec == Init /\ [][Next]_vars

\* A caller scanning one file with two lines far apart.
SpecWindow == InitWindow /\ [][Next]_vars

\* A caller scanning one file, short or with two lines far apart.
SpecSubscripts == InitSubscripts /\ [][NextScan]_vars

\* A caller scanning files and directories of a tree.
SpecDir == InitDir /\ [][NextDir]_vars

\* A caller reporting on lists of findings.
SpecReport == InitReport /\ [][NextReport]_vars

\* A caller scanning one file of threaded sections.
SpecSections == InitSections /\ [][NextScan]_vars

\* Scans running at the same time on one detector.
SpecThreads == InitThreads /\ [][NextThreads]_vars

\* Requests to the web application.
SpecWeb == InitWeb /\ [][NextWeb]_vars

\* A user of the desktop front end.
SpecGui == InitGui /\ [][NextGui]_vars

\* The same, every scan thread running on and the main loop running every
\* callback it was given.
SpecGuiLive ==
    /\ SpecGui
    /\ \A id \in ScanIds : WF_vars(\E fault \in Faults : PerformScan(id, fault))
    /\ WF_vars(UpdateResults)
    /\ WF_vars(ShowError)

(***************************************************************************)
(* The properties.                                                         *)
(***************************************************************************)

\* The lines of the file the last scan_file call was given.
ScannedLines == split(read_file(tree, calls[1]).content)

\* The positions in the returned list of the findings of a category at a line.
FindingsAt(race_type, n) ==
    {i \in 1..Len(conditions) :
        conditions[i].race_type = race_type /\ conditions[i].line_number = n}

Distance(a, b) == IF a >= b THEN a - b ELSE b - a

MatchesFileRace(l) == \E k \in 1..PatternCount : LineFacts[l].search.file_race[k]

\* The lines holding lock, acquire, release or with, in any case.
LockTokenLines ==
    {l \in LineTexts : \E kw \in {"lock", "acquire", "release", "with"} : Contains(lower(l), kw)}

HasLockToken(l) == l \in LockTokenLines

\* C1: in every report generate_report builds as json, the summary's total
\* is the length of the list it was given and the high, medium and low
\* counts add up to that total.
C1_SummaryCounts ==
    report.output_format = "json" =>
        /\ report.out.summary.total_conditions = Len(conditions)
        /\ report.out.summary.high_severity + report.out.summary.medium_severity
               + report.out.summary.low_severity = report.out.summary.total_conditions

C1_Witness ==
    /\ entry = "caller"
    /\ report.output_format = "json"
    /\ report.out.summary.high_severity > 0
    /\ report.out.summary.medium_severity > 0
    /\ report.out.summary.low_severity > 0

\* C2: a line matching a file_race pattern has no File Operation Race
\* finding whenever a lock, acquire, release or with token stands on a line
\* at most 10 lines before or at most 10 lines after it.
C2_LockWithinTenSuppresses ==
    entry = "scan_file" =>
        LET lines == ScannedLines
        IN  \A n, k \in 1..Len(lines) :
                ( /\ MatchesFileRace(lines[n])
                  /\ Distance(n, k) <= 10
                  /\ HasLockToken(lines[k]) )
                => FindingsAt("File Operation Race", n) = {}

\* C3: a line containing open('f','a') with no lock, acquire, release or
\* with token on any line at most 10 lines away, itself included, has
\* exactly one File Operation Race finding, and its severity is HIGH.
C3_UnlockedOpenFlaggedOnce ==
    entry = "scan_file" =>
        LET lines == ScannedLines
        IN  \A n \in 1..Len(lines) :
                ( /\ Contains(lines[n], "open('f','a')")
                  /\ \A k \in 1..Len(lines) :
                         Distance(n, k) <= 10 => ~HasLockToken(lines[k]) )
                => /\ Cardinality(FindingsAt("File Operation Race", n)) = 1
                   /\ \A i \in FindingsAt("File Operation Race", n) : conditions[i].severity = "HIGH"

C3_Witness ==
    /\ entry = "scan_file"
    /\ LET lines == ScannedLines
       IN  \E n, far \in 1..Len(lines) :
              /\ Contains(lines[n], "open('f','a')")
              /\ HasLockToken(lines[far])
              /\ Distance(n, far) > 10
              /\ \A k \in 1..Len(lines) :
                     Distance(n, k) <= 10 => ~HasLockToken(lines[k])
              /\ Cardinality(FindingsAt("File Operation Race", n)) = 1

IsCounterLine(l) == strip(l) = "counter += 1"

\* A thread_race pattern matches the line.
HasThreadConstruct(l) == \E k \in 1..PatternCount : LineFacts[l].search.thread_race[k]

\* The line holds one of the four words, in this very case.
ThreadWordLines ==
    {l \in LineTexts : \E kw \in {"threading", "Thread", "concurrent", "asyncio"} : Contains(l, kw)}

HasThreadWord(l) == l \in ThreadWordLines

\* The line n has exactly one Variable Race finding, MEDIUM, naming counter.
CounterFlaggedOnce(n) ==
    /\ Cardinality(FindingsAt("Variable Race", n)) = 1
    /\ \A i \in FindingsAt("Variable Race", n) :
          /\ conditions[i].severity = "MEDIUM"
          /\ Contains(conditions[i].description, "'counter'")

NoVariableRace == \A i \in 1..Len(conditions) : conditions[i].race_type # "Variable Race"

\* C4: a file with a line counter += 1 has no Variable Race finding when no
\* line holds one of the words threading, Thread, concurrent, asyncio, and
\* exactly one Variable Race finding at that line, MEDIUM and naming
\* counter, when some line of the file holds one of them.
C4_CounterFlaggedIffThreadWord ==
    entry = "scan_file" =>
        LET lines == ScannedLines
        IN  \A n \in 1..Len(lines) :
                IsCounterLine(lines[n]) =>
                    IF \E k \in 1..Len(lines) : HasThreadWord(lines[k])
                    THEN CounterFlaggedOnce(n)
                    ELSE NoVariableRace

C4_Witness ==
    /\ entry = "scan_file"
    /\ LET lines == ScannedLines
       IN  \E n, k \in 1..Len(lines) :
              /\ IsCounterLine(lines[n])
              /\ n < k
              /\ HasThreadWord(lines[k])
              /\ \A j \in 1..n : ~HasThreadWord(lines[j])
              /\ CounterFlaggedOnce(n)

\* C4 as stated: any thread construct (thread creation, concurrent
\* executor, asynchronous call, .start(), .join()) on any line makes the
\* line counter += 1 flagged once; no thread token at all leaves it unflagged.
C4_AnyThreadConstructFlags ==
    entry = "scan_file" =>
        LET lines == ScannedLines
        IN  \A n \in 1..Len(lines) :
                IsCounterLine(lines[n]) =>
                    /\ (\E k \in 1..Len(lines) : HasThreadConstruct(lines[k]))
                           => CounterFlaggedOnce(n)
                    /\ (\A k \in 1..Len(lines) :
                            ~HasThreadConstruct(lines[k]) /\ ~HasThreadWord(lines[k]))
                           => NoVariableRace

\* C5: a line shared_data.append(item) between a line creating a thread and
\* the next blank line has a Missing Lock finding.
C5_AppendInRegionFlagged ==
    entry = "scan_file" =>
        LET lines == ScannedLines
        IN  \A s, n, e \in 1..Len(lines) :
                ( /\ s < n /\ n < e
                  /\ Contains(lines[s], "threading.Thread")
                  /\ strip(lines[n]) = "shared_data.append(item)"
                  /\ strip(lines[e]) = ""
                  /\ \A j \in s..(e - 1) : strip(lines[j]) # "" )
                => FindingsAt("Missing Lock", n) # {}

\* C6: a scan_file call repeated on the same unchanged file, by the same or
\* by another detector, returns a list equal to the one returned before.
C6_RepeatedScanEqual == (entry = "scan_file" /\ previous.repeated) => previous.ret = conditions

C6_Witness == entry = "scan_file" /\ previous.repeated /\ Len(conditions) >= 2

CategoryOrder ==
    <<"File Operation Race", "Variable Race", "Database Race", "Threading Race", "Missing Lock">>

\* The findings of one category, in the order of the list.
Block(cs, race_type) == LET OfType(c) == c.race_type = race_type IN SelectSeq(cs, OfType)

\* C7: the list scan_file returns is its File Operation Race, Variable
\* Race, Database Race, Threading Race and Missing Lock findings one block
\* after the other, and line numbers never decrease inside a block.
C7_DetectionOrder ==
    entry = "scan_file" =>
        /\ conditions = Flatten([b \in 1..Len(CategoryOrder) |-> Block(conditions, CategoryOrder[b])])
        /\ \A i, j \in 1..Len(conditions) :
               (i < j /\ conditions[i].race_type = conditions[j].race_type)
               => conditions[i].line_number <= conditions[j].line_number

C7_Witness ==
    /\ entry = "scan_file"
    /\ Cardinality({conditions[i].race_type : i \in 1..Len(conditions)}) >= 3
    /\ \E i, j \in 1..Len(conditions) :
          /\ i < j
          /\ conditions[i].race_type = "Threading Race"
          /\ conditions[j].race_type = "Missing Lock"
    /\ \E i, j \in 1..Len(conditions) :
          /\ conditions[i].race_type = conditions[j].race_type
          /\ conditions[i].line_number < conditions[j].line_number

\* C8: every finding of scan_file has a line number between 1 and the
\* number of lines of the split text, and its snippet is that line of the
\* file with the white space at both ends removed.
C8_LineNumbersAndSnippets ==
    entry = "scan_file" =>
        LET lines == ScannedLines
        IN  \A i \in 1..Len(conditions) :
                /\ 1 <= conditions[i].line_number
                /\ conditions[i].line_number <= Len(lines)
                /\ conditions[i].code_snippet = strip(lines[conditions[i].line_number])

C8_Witness ==
    /\ entry = "scan_file"
    /\ \E i \in 1..Len(conditions) :
          /\ conditions[i].line_number > 1
          /\ conditions[i].line_number <= Len(ScannedLines)
          /\ ScannedLines[conditions[i].line_number] # conditions[i].code_snippet
          /\ conditions[i].code_snippet = strip(ScannedLines[conditions[i].line_number])

\* C9: every finding of scan_file is MEDIUM if it is a Variable Race and
\* HIGH if it is of one of the four other categories, and a json report
\* built from the findings of a scan counts 0 findings of low severity.
C9_SeverityPerCategory ==
    entry = "scan_file" =>
        /\ \A i \in 1..Len(conditions) :
               /\ conditions[i].race_type \in {CategoryOrder[b] : b \in 1..Len(CategoryOrder)}
               /\ conditions[i].severity =
                      IF conditions[i].race_type = "Variable Race" THEN "MEDIUM" ELSE "HIGH"
        /\ report.output_format = "json" => report.out.summary.low_severity = 0

C9_Witness ==
    /\ entry = "scan_file"
    /\ report.output_format = "json"
    /\ report.out.summary.low_severity = 0
    /\ \E i, j \in 1..Len(conditions) :
          /\ conditions[i].race_type = "Variable Race" /\ conditions[i].severity = "MEDIUM"
          /\ conditions[j].race_type = "Threading Race" /\ conditions[j].severity = "HIGH"

\* The path ends with one of the eight extensions, after a name of at
\* least one character.
HasListedExtension(path) ==
    \E e \in {".py", ".js", ".ts", ".java", ".cpp", ".c", ".go", ".rs"} :
        /\ Len(basename(path)) > Len(e)
        /\ Slice(path, Len(path) - Len(e) + 1, Len(path)) = e

\* Every file under the root, top directory first.
FilesUnderRoot == [e \in 1..Len(entries(tree)) |-> entries(tree)[e].path]

RECURSIVE SumOfLengths(_)
SumOfLengths(lists) == IF lists = <<>> THEN 0 ELSE Len(Head(lists)) + SumOfLengths(Tail(lists))

\* C10: scan_directory calls scan_file once on each file under the root
\* whose extension is one of the eight and on no other file, and returns
\* the results of these calls one after the other in the order of the
\* walk, as many findings as the calls returned together.
C10_DirectoryScan ==
    entry = "scan_directory" =>
        LET each == [c \in 1..Len(calls) |-> scan_file(NewDetector, tree, calls[c]).ret]
        IN  /\ calls = SelectSeq(FilesUnderRoot, HasListedExtension)
            /\ conditions = Flatten(each)
            /\ Len(conditions) = SumOfLengths(each)

C10_Witness ==
    /\ entry = "scan_directory"
    /\ Len(calls) >= 2
    /\ Len(calls) < Len(FilesUnderRoot)
    /\ \E c \in 1..Len(calls) : Contains(calls[c], "/sub/")
    /\ \E c \in 1..Len(calls) : scan_file(NewDetector, tree, calls[c]).ret # <<>>
    /\ Len(conditions) >= 2

\* The files of the tree that cannot be read, and those that can.
UnreadablePaths == {entries(tree)[e].path : e \in {x \in 1..Len(entries(tree)) : ~entries(tree)[x].file.readable}}

\* C11: scan_file and scan_directory leave no exception to their caller;
\* scan_file returns the empty list for a path it cannot open or read, and
\* scan_directory returns, in walk order, the findings of every file with a
\* supported extension that can be read, a file that cannot be read adding
\* none.
C11_UnreadableFilesSkipped ==
    /\ raised = "none"
    /\ (entry = "scan_file" /\ ~read_file(tree, calls[1]).ok) => conditions = <<>>
    /\ entry = "scan_directory" =>
           LET Readable(path) == path \notin UnreadablePaths
               others == SelectSeq(SelectSeq(FilesUnderRoot, HasListedExtension), Readable)
           IN  conditions =
                   Flatten([c \in 1..Len(others) |-> scan_file(NewDetector, tree, others[c]).ret])

C11_Witness ==
    /\ entry = "scan_directory"
    /\ raised = "none"
    /\ \E c, later \in 1..Len(calls) :
          /\ calls[c] \in UnreadablePaths
          /\ c < later
          /\ scan_file(NewDetector, tree, calls[later]).ret # <<>>
    /\ conditions # <<>>

(***************************************************************************)
(* Reading a text report back: the numbers of its head and the fields of   *)
(* each finding's block.                                                   *)
(***************************************************************************)

StartsWith(s, prefix) == Slice(s, 1, Len(prefix)) = prefix

After(s, prefix) == Slice(s, Len(prefix) + 1, Len(s))

IsNumber(s) == s # "" /\ \A i \in 1..Len(s) : Char(s, i) \in CharsOf(Digits)

RECURSIVE NumberOf(_)
\* The number a string of digits writes; -1 for any other string.
NumberOf(s) ==
    IF ~IsNumber(s) THEN -1
    ELSE LET last == (CHOOSE d \in 1..10 : Char(Digits, d) = Char(s, Len(s))) - 1
         IN  IF Len(s) = 1 THEN last ELSE 10 * NumberOf(Slice(s, 1, Len(s) - 1)) + last

\* The number after the label of a line of the head.
Labelled(line, label) == IF StartsWith(line, label) THEN NumberOf(After(line, label)) ELSE -1

RECURSIVE ReadRecommendations(_, _)
ReadRecommendations(lines, i) ==
    IF i > Len(lines) \/ ~StartsWith(lines[i], "  - ") THEN <<>>
    ELSE <<After(lines[i], "  - ")>> \o ReadRecommendations(lines, i + 1)

Unreadable == [unreadable |-> TRUE]

RECURSIVE ReadFindings(_, _)
\* The findings written from line i on; a block that is cut short or
\* mislabelled reads as Unreadable.
ReadFindings(lines, i) ==
    IF i > Len(lines) THEN <<>>
    ELSE IF i + 6 > Len(lines) THEN <<Unreadable>>
    ELSE LET where == After(lines[i], "File: ")
             colons == {c \in 1..Len(where) : Char(where, c) = ":"}
             colon == IF colons = {} THEN Len(where) + 1
                      ELSE CHOOSE c \in colons : \A o \in colons : o <= c
             recommendations == ReadRecommendations(lines, i + 6)
             labelled == /\ StartsWith(lines[i], "File: ")
                         /\ StartsWith(lines[i + 1], "Type: ")
                         /\ StartsWith(lines[i + 2], "Severity: ")
                         /\ StartsWith(lines[i + 3], "Description: ")
                         /\ StartsWith(lines[i + 4], "Code: ")
                         /\ lines[i + 5] = "Recommendations:"
         IN  IF ~labelled THEN <<Unreadable>>
             ELSE << RaceCondition(Slice(where, 1, colon - 1),
                                   NumberOf(Slice(where, colon + 1, Len(where))),
                                   After(lines[i + 1], "Type: "),
                                   After(lines[i + 3], "Description: "),
                                   After(lines[i + 2], "Severity: "),
                                   After(lines[i + 4], "Code: "),
                                   recommendations) >>
                  \o ReadFindings(lines, i + 6 + Len(recommendations) + 1)

ReadTextReport(text) ==
    LET lines == text.lines
    IN  IF Len(lines) < 8 THEN [summary |-> Unreadable, conditions |-> <<>>]
        ELSE [summary |-> [total_conditions |-> Labelled(lines[4], "Total conditions found: "),
                           high_severity |-> Labelled(lines[5], "High severity: "),
                           medium_severity |-> Labelled(lines[6], "Medium severity: "),
                           low_severity |-> Labelled(lines[7], "Low severity: ")],
              conditions |-> ReadFindings(lines, 9)]

\* C12: for the list a report was made from, the text report read back and
\* the json report carry the same total, the same three severity counts and
\* the same findings, in the same order and with the same fields.
C12_TextAndJsonAgree ==
    report.output_format \in {"json", "text"} =>
        LET as_json == IF report.output_format = "json" THEN report.out
                       ELSE generate_report(conditions, "json")
            as_text == IF report.output_format = "text" THEN report.out
                       ELSE generate_report(conditions, "text")
        IN  /\ ReadTextReport(as_text) = as_json
            /\ as_json.conditions = conditions

C12_Witness ==
    /\ entry = "caller"
    /\ report.output_format = "text"
    /\ Len(conditions) >= 2
    /\ ReadTextReport(report.out).summary.high_severity > 0
    /\ ReadTextReport(report.out).summary.low_severity > 0
    /\ \E i, j \in 1..Len(conditions) :
          /\ i < j
          /\ conditions[i].race_type # conditions[j].race_type
          /\ conditions[i].severity # conditions[i].race_type
          /\ ReadTextReport(report.out).conditions[j].line_number > 9

\* C13: generate_report returns for every list and every format value, and
\* what it returns for a format that is neither json nor text is the empty
\* string.
C13_UnknownFormatEmpty ==
    report.output_format # "none" =>
        /\ raised = "none"
        /\ report.output_format \notin {"json", "text"} => report.out = EmptyText
        /\ report.output_format \in {"json", "text"} => report.out # EmptyText

C13_Witness ==
    /\ entry = "caller"
    /\ report.output_format = "JSON"
    /\ conditions # <<>>
    /\ report.out = EmptyText
    /\ raised = "none"

\* C14: once a handler that created a scratch file has returned, with a
\* result or with an error, that file is no longer in the scratch directory.
C14_ScratchFileRemoved ==
    (web.status # 0 /\ web.scratch # "") => web.scratch \notin paths(tree)

\* What the scan a thread was given returns when it runs alone on a new
\* detector.
AloneResult(local) ==
    IF local.op = "scan_file" THEN scan_file(NewDetector, tree, local.path).ret
    ELSE scan_directory(NewDetector, tree, tree.root).ret

\* C15: no statement of a scan or of generate_report changes a field of
\* the detector, and a scan that ran on the shared detector while another
\* one was running, whatever the order of their statements, has returned
\* the list it returns when run alone.
C15_ConcurrentScansIndependent ==
    /\ detector = [d \in Detectors |-> NewDetector]
    /\ \A t \in Threads :
           threads[t].pc \in {"report", "done"} => threads[t].ret = AloneResult(threads[t])

C15_Witness ==
    /\ \A t \in Threads :
          /\ threads[t].pc = "done"
          /\ threads[t].overlapped
          /\ threads[t].ret # <<>>
    /\ threads["t1"].op = "scan_file"
    /\ threads["t2"].op = "scan_directory"
    /\ threads["t1"].ret # threads["t2"].ret

\* The lines holding a term of the transaction vocabulary, and of the
\* synchronization vocabulary, in any case.
TransactionTermLines ==
    {l \in LineTexts :
        \E kw \in {"transaction", "commit", "rollback", "begin", "end"} : Contains(lower(l), kw)}

SyncTermLines ==
    {l \in LineTexts :
        \E kw \in {"lock", "semaphore", "barrier", "event", "condition"} : Contains(lower(l), kw)}

\* Some line at most radius lines away from line i, line i included, is one
\* of the given lines.
TermWithin(lines, i, radius, holding) ==
    \E k \in 1..Len(lines) : Distance(i, k) <= radius /\ lines[k] \in holding

\* C16: each mitigation check called for line i is true exactly when a line
\* from i - radius to i + radius, within the file, holds a term of its
\* vocabulary: radius 10 for locks, 20 for transactions and for
\* synchronization.
C16_ChecksSeeWholeRadius ==
    entry = "scan_file" =>
        LET lines == ScannedLines
            m == facts_of(lines)
        IN  \A i \in 1..Len(lines) :
                /\ check_for_locks(lines, i, m) <=> TermWithin(lines, i, 10, LockTokenLines)
                /\ check_for_transactions(lines, i, m)
                       <=> TermWithin(lines, i, 20, TransactionTermLines)
                /\ check_for_synchronization(lines, i, m)
                       <=> TermWithin(lines, i, 20, SyncTermLines)

\* The lines holding threading, Thread or concurrent, in this very case.
SectionWordLines ==
    {l \in LineTexts : \E kw \in {"threading", "Thread", "concurrent"} : Contains(l, kw)}

BlankLines == {l \in LineTexts : strip(l) = ""}

\* The sections _find_threaded_sections gives for the scanned file.
ScannedSections == find_threaded_sections(ScannedLines, facts_of(ScannedLines))

\* C17: the sections are pairs (start, end) with 1 <= start < end <= number
\* of lines; each start is the first line holding threading, Thread or
\* concurrent after the end of the section before (or from the top), each
\* end the first blank line after its start, so no line from start to
\* end - 1 is blank; and each section ends before the next one starts.
C17_SectionsWellFormed ==
    entry = "scan_file" =>
        LET lines == ScannedLines
            sections == ScannedSections
        IN  \A s \in 1..Len(sections) :
                LET start == sections[s][1]
                    end == sections[s][2]
                    before == IF s = 1 THEN 0 ELSE sections[s - 1][2]
                IN  /\ 1 <= start /\ start < end /\ end <= Len(lines)
                    /\ before < start
                    /\ lines[start] \in SectionWordLines
                    /\ \A j \in (before + 1)..(start - 1) : lines[j] \notin SectionWordLines
                    /\ lines[end] \in BlankLines
                    /\ \A j \in start..(end - 1) : lines[j] \notin BlankLines

C17_Witness ==
    /\ entry = "scan_file"
    /\ LET lines == ScannedLines
           sections == ScannedSections
       IN  /\ Len(sections) = 2
           /\ sections[1][2] - sections[1][1] >= 2
           /\ \E j \in (sections[1][1] + 1)..(sections[1][2] - 1) : lines[j] \in SectionWordLines

\* C18: when a line holding threading, Thread or concurrent has no blank
\* line after it, no section reaches that line and scan_file has no
\* Missing Lock finding from that line to the end of the file.
C18_UnclosedSectionDropped ==
    entry = "scan_file" =>
        LET lines == ScannedLines
            sections == ScannedSections
        IN  \A s \in 1..Len(lines) :
                ( /\ lines[s] \in SectionWordLines
                  /\ \A j \in (s + 1)..Len(lines) : lines[j] \notin BlankLines )
                => /\ \A r \in 1..Len(sections) : sections[r][2] < s
                   /\ \A n \in s..Len(lines) : FindingsAt("Missing Lock", n) = {}

C18_Witness ==
    /\ entry = "scan_file"
    /\ LET lines == ScannedLines
       IN  \E s \in 2..Len(lines) :
              /\ lines[s] \in SectionWordLines
              /\ \A j \in (s + 1)..Len(lines) : lines[j] \notin BlankLines
              /\ s < Len(lines)
              /\ LineFacts[lines[Len(lines)]].shared
              /\ \E n \in 1..(s - 1) : FindingsAt("Missing Lock", n) # {}
              /\ \A n \in s..Len(lines) : FindingsAt("Missing Lock", n) = {}

Matching(category, l) ==
    Cardinality({k \in 1..PatternCount : LineFacts[l].search[category][k]})

\* Some line of the file is one of the given lines.
FileHolds(lines, holding) == \E k \in 1..Len(lines) : lines[k] \in holding

\* C21: findings are not deduplicated.  In a file shorter than every guard's
\* radius, a line has one File Operation Race finding for each file_race
\* pattern that matches it when no line holds a lock token, one Variable
\* Race finding for each variable_race pattern when some line holds a
\* threading word, one Database Race finding for each database_race pattern
\* when no line holds a transaction term and one Threading Race finding for
\* each thread_race pattern when no line holds a synchronization term: a
\* line matching k patterns of a category has k findings of it, and a line
\* matching patterns of several categories has the findings of each.
C21_FindingsNotDeduplicated ==
    entry = "scan_file" =>
        LET lines == ScannedLines
        IN  \A n \in 1..Len(lines) :
                /\ ~FileHolds(lines, LockTokenLines) =>
                       Cardinality(FindingsAt("File Operation Race", n))
                           = Matching("file_race", lines[n])
                /\ FileHolds(lines, ThreadWordLines) =>
                       Cardinality(FindingsAt("Variable Race", n))
                           = Matching("variable_race", lines[n])
                /\ ~FileHolds(lines, TransactionTermLines) =>
                       Cardinality(FindingsAt("Database Race", n))
                           = Matching("database_race", lines[n])
                /\ ~FileHolds(lines, SyncTermLines) =>
                       Cardinality(FindingsAt("Threading Race", n))
                           = Matching("thread_race", lines[n])

C21_Witness ==
    /\ entry = "scan_file"
    /\ LET lines == ScannedLines
       IN  \E n \in 1..Len(lines) :
              /\ lines[n] = "total += f.read()"
              /\ Cardinality(FindingsAt("File Operation Race", n)) = 2
              /\ Cardinality(FindingsAt("Variable Race", n)) = 1

\* The request reached execute_code_safely: it went to the execute route and
\* its code was written to the scratch file.
CalledExecute == web.route = "execute" /\ web.request.body.kind = "text"

\* The result is of one of the five kinds, and success is true for the
\* first only.
OneKind(x, language) ==
    /\ x.execution_time \in {"completed", "timeout", "not_supported", "error"}
    /\ x.success <=> (x.execution_time = "completed" /\ x.return_code = 0)
    /\ x.execution_time = "not_supported" <=> language \notin {"python", "javascript"}

\* C22: every call of execute_code_safely, whatever the language, the
\* timeout and the child, comes back without an exception, with a result
\* of one of the kinds success, non-zero exit, timeout, unsupported
\* language and system error, and success is true for the first only.
C22_ExecuteReturnsOneKind ==
    CalledExecute =>
        /\ web.pc = "responded"
        /\ raised = "none"
        /\ OneKind(web.execution, web.request.language)

\* The response carries scan results.
HasScanResults(response) == "scan_results" \in DOMAIN response

\* The last two requests went to the execute route with the same code, and
\* the code of each was written to its scratch file.
SameCodeExecutedTwice ==
    /\ CalledExecute
    /\ web.pc = "responded"
    /\ web.before.route = "execute"
    /\ web.before.body = web.request.body

\* C23: two requests to the execute route with the same code, whatever the
\* language, the timeout and the child of each and so whatever the outcome
\* of each execution, are both answered with scan results, and with the
\* same ones.
C23_ScanResultsWhateverExecution ==
    SameCodeExecutedTwice =>
        /\ HasScanResults(web.response)
        /\ HasScanResults(web.before.response)
        /\ web.response.scan_results = web.before.response.scan_results

\* The routes that scan and do not execute.
ScanRoutes == {"scan", "scan-text", "scan-url", "scan-website"}

\* C24: every request to a scanning route is answered, and no exception
\* leaves its handler: with status 400 and a message naming what is missing
\* when the upload, its file name, the content, the URL or the domain is
\* missing or the fetch fails; with status 500 and a message starting with
\* Scan failed when the body is no JSON, the upload cannot be decoded or
\* the content cannot be written; with status 200 and the report otherwise.
C24_ScanRequestsAnswered ==
    web.route \in ScanRoutes =>
        /\ web.pc = "responded"
        /\ raised = "none"
        /\ CASE web.request.body.kind \in {"missing", "unnamed", "unfetchable"} ->
                    /\ web.status = 400
                    /\ web.response \in
                           {error(message) :
                               message \in {"No file uploaded", "No file selected",
                                            "No content provided", "No URL provided",
                                            "No domain provided",
                                            "Failed to fetch URL: ConnectionError"}}
             [] web.request.body.kind \in {"malformed", "undecodable", "unwritable"} ->
                    /\ web.status = 500
                    /\ DOMAIN web.response = {"error"}
                    /\ StartsWith(web.response.error, "Scan failed: ")
             [] OTHER ->
                    /\ web.status = 200
                    /\ web.response = [report |-> json_report(conditions)]

C24_Witness ==
    /\ web.route = "scan"
    /\ web.request.body.kind = "undecodable"
    /\ web.status = 500
    /\ web.before.route = "scan-url"
    /\ web.before.body.kind = "unfetchable"
    /\ web.before.status = 400

\* The scans whose thread was launched and whose callback has not run yet,
\* and those whose thread has not finished.
ScansInFlight == {id \in ScanIds : gui.scans[id].pc \in {"scan", "done"}}

ScanThreadsRunning == {id \in ScanIds : gui.scans[id].pc = "scan"}

\* C25: from the launch of a scan thread by start_scan until
\* update_results or show_error has run for it, the button Scan for Race
\* Conditions is disabled, and at most one scan thread is running.
C25_ScanButtonDisabledWhileScanning ==
    /\ ScansInFlight # {} => gui.state["scan_btn"] = "disabled"
    /\ Cardinality(ScanThreadsRunning) <= 1

\* The callbacks that wait for the main loop on behalf of a scan.
Waiting(id) == {i \in 1..Len(gui.after) : gui.after[i].id = id}

\* What only the main thread writes: self.results and the widgets.
MainThreadState == <<gui.results, gui.state, gui.progress, gui.status, gui.dialog>>

\* C26: a scan thread has scheduled no callback while it runs and exactly
\* one when it has finished, update_results if the scan returned and
\* show_error if it raised; the step of a scan thread changes neither
\* self.results nor a widget; when update_results or show_error has run,
\* the progress bar is stopped and the status is no longer Scanning...; and
\* every scan thread that was launched finishes, and its callback is run.
C26_EveryScanSchedulesOneCallback ==
    /\ [](\A id \in ScanIds :
            /\ gui.scans[id].callbacks = (IF gui.scans[id].pc \in {"done", "shown"} THEN 1 ELSE 0)
            /\ Cardinality(Waiting(id)) = (IF gui.scans[id].pc = "done" THEN 1 ELSE 0)
            /\ \A i \in Waiting(id) :
                   gui.after[i].callback = (IF gui.scans[id].outcome = "returned"
                                            THEN "update_results" ELSE "show_error"))
    /\ [](gui.last \in {"update_results", "show_error"} =>
             gui.progress = "stopped" /\ gui.status # "Scanning...")
    /\ [][(\E id \in ScanIds : gui.scans[id].pc = "scan" /\ gui.scans'[id].pc = "done")
             => UNCHANGED MainThreadState]_vars
    /\ \A id \in ScanIds : (gui.scans[id].pc = "scan") ~> (gui.scans[id].pc = "done")
    /\ \A id \in ScanIds : (gui.scans[id].pc = "done") ~> (gui.scans[id].pc = "shown")

C26_Witness ==
    /\ gui.scans[1].pc = "shown"
    /\ gui.scans[1].outcome = "raised"
    /\ gui.scans[2].pc = "shown"
    /\ gui.scans[2].outcome = "returned"
    /\ gui.results # <<>>
    /\ gui.last = "update_results"

\* The pattern-based categories of the registry with the label of their findings.
PatternCategories ==
    { [category |-> "file_race", race_type |-> "File Operation Race"],
      [category |-> "variable_race", race_type |-> "Variable Race"],
      [category |-> "database_race", race_type |-> "Database Race"],
      [category |-> "thread_race", race_type |-> "Threading Race"] }

\* C27: the range of lines every mitigation check looks at holds the flagged
\* line itself, so a line holding a term of the guard's own vocabulary is
\* never reported by that detector: a line holding a lock token (with and
\* lock among them) has no File Operation Race finding, a line holding a
\* transaction term (a line matching BEGIN TRANSACTION among them) has no
\* Database Race finding, and a line holding a synchronization term has no
\* Threading Race finding.
C27_FlaggedLineInItsOwnWindow ==
    entry = "scan_file" =>
        LET lines == ScannedLines
        IN  \A n \in 1..Len(lines) :
                /\ \A radius \in {LockRadius, TransactionRadius, SyncRadius} :
                       (n - 1) \in window(lines, n, radius)
                /\ lines[n] \in LockTokenLines => FindingsAt("File Operation Race", n) = {}
                /\ (Contains(lower(lines[n]), "with") \/ Contains(lower(lines[n]), "lock")) =>
                       FindingsAt("File Operation Race", n) = {}
                /\ lines[n] \in TransactionTermLines => FindingsAt("Database Race", n) = {}
                /\ LineFacts[lines[n]].search.database_race[5] =>
                       FindingsAt("Database Race", n) = {}
                /\ lines[n] \in SyncTermLines => FindingsAt("Threading Race", n) = {}

C27_Witness ==
    /\ entry = "scan_file"
    /\ LET lines == ScannedLines
       IN  \E n, o \in 1..Len(lines) :
              /\ o - n > TransactionRadius
              /\ lines[n] = "with open('f','a') as f:"
              /\ MatchesFileRace(lines[n])
              /\ FindingsAt("File Operation Race", n) = {}
              /\ lines[o] = "db.run('BEGIN TRANSACTION')"
              /\ LineFacts[lines[o]].search.database_race[5]
              /\ FindingsAt("Database Race", o) = {}

\* C28: at every line, the number of findings of each pattern-based
\* category (file, variable, database, threading) is either 0 or the number
\* of the category's patterns that match the line, which is at most 5; the
\* number of Missing Lock findings at a line is at most 1.
C28_FindingsPerLine ==
    entry = "scan_file" =>
        LET lines == ScannedLines
        IN  \A n \in 1..Len(lines) :
                /\ \A c \in PatternCategories :
                       /\ Cardinality(FindingsAt(c.race_type, n))
                              \in {0, Matching(c.category, lines[n])}
                       /\ Matching(c.category, lines[n]) <= 5
                /\ Cardinality(FindingsAt("Missing Lock", n)) <= 1

C28_Witness ==
    /\ entry = "scan_file"
    /\ LET lines == ScannedLines
       IN  \E n, o \in 1..Len(lines) :
              /\ lines[n] = "f.write(data)"
              /\ Matching("file_race", lines[n]) = 2
              /\ Cardinality(FindingsAt("File Operation Race", n)) = 2
              /\ lines[o] = "    f = open('f','a')"
              /\ Matching("file_race", lines[o]) = 1
              /\ Cardinality(FindingsAt("File Operation Race", o)) = 1

C30_SubscriptsWithinLines ==
    entry = "scan_file" =>
        /\ raised # "IndexError"
        /\ LET lines == ScannedLines
           IN  \A i \in subscripts(lines, facts_of(lines)) : 0 <= i /\ i <= Len(lines) - 1

C30_Witness ==
    /\ entry = "scan_file"
    /\ raised = "none"
    /\ LET lines == ScannedLines
       IN  /\ Len(lines) > SyncRadius
           /\ Len(lines) \in matched_lines(lines, facts_of(lines), "thread_race")
           /\ (Len(lines) - 1) \in subscripts(lines, facts_of(lines))
           /\ 1 \in matched_lines(lines, facts_of(lines), "file_race")
           /\ 0 \in subscripts(lines, facts_of(lines))

====
